---- MODULE Spec2Model ----
(***************************************************************************)
(* Vector-memory retrieval layer and store-worthiness policy of the        *)
(* supermemory repository.                                                 *)
(*                                                                         *)
(* Scores, thresholds and importances are integers in hundredths           *)
(* (0.3 is 30).  Embeddings are 2-dimensional integer vectors of length    *)
(* Scale, standing for the unit vectors the embedder produces              *)
(* (normalize: true); every cosine between two of them is an exact number  *)
(* of hundredths.                                                          *)
(***************************************************************************)
EXTENDS Integers, Sequences, FiniteSets, TLC

(* ------------------------------------------------------------------ *)
(* Bounds                                                              *)
(* ------------------------------------------------------------------ *)

\* largest number of records a store holds in the model
MaxMemories == 2

\* largest number of fragments a modelled user message is built from
MaxFrags == 3

(* ------------------------------------------------------------------ *)
(* Values                                                              *)
(* ------------------------------------------------------------------ *)

\* an omitted numeric option (topK, threshold)
Undef == -999

\* the empty metadata object {}
EmptyMeta == [k \in {} |-> k]

Has(obj, key) == key \in DOMAIN obj

\* length of the modelled unit vectors
Scale == 5

\* EmbeddingService.embed: a deterministic map from text to a unit vector
Embed(text) ==
  CASE text = "t1" -> <<5, 0>>
    [] text = "t2" -> <<3, 4>>
    [] text = "t3" -> <<0, 5>>
    [] text = ""   -> <<4, 3>>
    [] OTHER       -> <<-5, 0>>

Contents == {"t1", "t2"}
Queries == {"t1", "t3", "t4"}

\* metadata objects callers pass to an insert or an update
MetaPool ==
  { EmptyMeta,
    [userId |-> "u1"],
    [userId |-> "u2", messageType |-> "assistant", tags |-> <<"x">>],
    [userId |-> "u1", conversationId |-> "c1", importance |-> 90, category |-> "personal"] }

\* filters callers pass to a search
FilterPool ==
  { [userId |-> "u1"],
    [userId |-> "u2"],
    [messageType |-> "assistant"],
    [userId |-> "u1", category |-> "personal"],
    [tags |-> <<"x", "y">>] }

NoFilter == EmptyMeta

TopKs == {Undef, 1, 2}
Thresholds == {Undef, 0, 30, 70}

Backends == {"simple", "faiss", "pinecone", "chroma"}

\* an id no uuid generator produced (a caller-supplied id for update)
ForeignId == 0

(* ------------------------------------------------------------------ *)
(* Arithmetic helpers                                                  *)
(* ------------------------------------------------------------------ *)

RECURSIVE SumTo(_, _)
SumTo(f, n) == IF n = 0 THEN 0 ELSE f[n] + SumTo(f, n - 1)

\* Math.sqrt on the perfect squares the modelled vectors produce
Sqrt(n) == CHOOSE r \in 0..n : r * r = n

Dot(a, b) == SumTo([i \in 1..Len(a) |-> a[i] * b[i]], Len(a))

\* SimpleVectorStore.cosineSimilarity, in hundredths
cosineSimilarity(vecA, vecB) ==
  LET dotProduct == Dot(vecA, vecB)
      normA == Dot(vecA, vecA)
      normB == Dot(vecB, vecB)
      denominator == Sqrt(normA) * Sqrt(normB)
  IN IF denominator = 0 THEN 0 ELSE (dotProduct * 100) \div denominator

\* squared L2 distance (FAISS IndexFlatL2, Chroma's default space), in hundredths
L2Distance(a, b) ==
  (100 * SumTo([i \in 1..Len(a) |-> (a[i] - b[i]) * (a[i] - b[i])], Len(a)))
     \div (Scale * Scale)

\* Array.prototype.sort((a, b) => b.similarity - a.similarity): stable, descending
RECURSIVE InsertDesc(_, _)
InsertDesc(sorted, r) ==
  IF sorted = <<>> THEN <<r>>
  ELSE IF Head(sorted).similarity >= r.similarity
       THEN <<Head(sorted)>> \o InsertDesc(Tail(sorted), r)
       ELSE <<r>> \o sorted

RECURSIVE SortDesc(_)
SortDesc(seq) ==
  IF seq = <<>> THEN <<>>
  ELSE InsertDesc(SortDesc(SubSeq(seq, 1, Len(seq) - 1)), seq[Len(seq)])

\* mutant of Slice: the cut at n is lost
SliceNoCut(seq, n) == seq

\* Array.prototype.slice(0, n) for n >= 0
Slice(seq, n) == SubSeq(seq, 1, IF n < Len(seq) THEN n ELSE Len(seq))

\* a || b on numbers: 0 and undefined are falsy
OrNum(a, b) == IF a = Undef \/ a = 0 THEN b ELSE a

\* obj.key || dflt on strings: undefined and '' are falsy
OrStr(obj, key, dflt) == IF Has(obj, key) /\ obj[key] # "" THEN obj[key] ELSE dflt

\* obj.key || dflt on numbers
OrNumField(obj, key, dflt) == IF Has(obj, key) /\ obj[key] # 0 THEN obj[key] ELSE dflt

(* ------------------------------------------------------------------ *)
(* State                                                               *)
(* ------------------------------------------------------------------ *)

VARIABLES
  backend,        \* which store the deployment constructed
  isInitialized,  \* Supermemory.isInitialized / index, collection handle obtained
  memories,       \* SimpleVectorStore.memories / VectorStore.memories (FAISS rows in the same order)
  index,          \* contents of the Pinecone index / Chroma collection
  nextId,         \* number of uuids generated so far
  last,           \* what the last completed operation was given and returned
  userMessage,    \* SmartMemoryFilter.analyzeConversation: argument
  aiResponse,     \* SmartMemoryFilter.analyzeConversation: argument
  llmResponse,    \* what llmProvider.generateResponse gave for the analysis prompt
  fpc,            \* position of the analyzeConversation call
  decision,       \* what analyzeConversation gave its caller
  chat,           \* the chat request being handled: position, inputs, outcome
  disk,           \* memories.json in the storage directory of the in-process store
  calls,          \* the calls in flight of each concurrent caller: position, argument, result
  provision       \* the Pinecone index as a resource of the project, and how often it was asked for

storeVars == <<backend, isInitialized, memories, index, nextId, last, disk, calls, provision>>
filterVars == <<userMessage, aiResponse, llmResponse, fpc, decision, chat>>
vars == <<backend, isInitialized, memories, index, nextId, last,
          userMessage, aiResponse, llmResponse, fpc, decision, chat, disk, calls, provision>>

\* no memories.json has been written
NoFile == [exists |-> FALSE, data |-> <<>>]

Nothing == [op |-> "none"]

\* number of callers whose calls overlap
MaxCallers == 2

Callers == 1..MaxCallers

\* a caller with no call in flight
IdleCall == [pc |-> "idle", content |-> "", id |-> 0]

NoCalls == [p \in Callers |-> IdleCall]

\* no index of the configured name in the Pinecone project, nothing asked yet
NotProvisioned == [state |-> "absent", begun |-> 0, loads |-> 0, lists |-> 0, creates |-> 0]

(* ------------------------------------------------------------------ *)
(* SimpleVectorStore                                                   *)
(* ------------------------------------------------------------------ *)

\* SimpleVectorStore.matchesFilter / VectorStore.matchesFilter
matchesFilter(metadata, filter) ==
  \A key \in DOMAIN filter :
    IF key = "tags"
    THEN LET memoryTags == IF Has(metadata, "tags") THEN metadata.tags ELSE <<>>
         IN \E i \in 1..Len(filter[key]) :
              \E j \in 1..Len(memoryTags) : memoryTags[j] = filter[key][i]
    ELSE Has(metadata, key) /\ metadata[key] = filter[key]

\* the loop of SimpleVectorStore.search: similarity of every memory that passes the filter
RECURSIVE ScoreAll(_, _, _)
ScoreAll(mems, queryEmbedding, filter) ==
  IF mems = <<>> THEN <<>>
  ELSE LET memory == Head(mems)
           rest == ScoreAll(Tail(mems), queryEmbedding, filter)
       IN IF ~matchesFilter(memory.metadata, filter)
          THEN rest
          ELSE <<[memory |-> memory,
                  similarity |-> cosineSimilarity(queryEmbedding, memory.embedding)]>> \o rest

\* SimpleVectorStore.search
SimpleSearch(mems, queryEmbedding, topK, filter) ==
  IF Len(mems) = 0 THEN <<>>
  ELSE Slice(SortDesc(ScoreAll(mems, queryEmbedding, filter)), topK)

(* ------------------------------------------------------------------ *)
(* Supermemory (facade over SimpleVectorStore)                         *)
(* ------------------------------------------------------------------ *)

DefaultTopK == 5
DefaultImportance == 50

\* SimpleVectorStore.loadFromDisk: the file, when there is one, replaces this.memories
LoadedFromDisk(mems, file) == IF file.exists THEN file.data ELSE mems

\* the store after `if (!this.isInitialized) await this.initialize()`
AfterInitialize(mems, initialized, file) ==
  IF initialized THEN mems ELSE LoadedFromDisk(mems, file)

\* the Memory object Supermemory.remember builds
NewMemory(id, content, metadata) ==
  [id |-> id,
   content |-> content,
   embedding |-> Embed(content),
   metadata |-> [importance |-> OrNumField(metadata, "importance", DefaultImportance)] @@ metadata]

\* Supermemory.recall after initialization: search, then the optional threshold filter
RecallResults(mems, query, topK, filter, threshold) ==
  LET results == SimpleSearch(mems, Embed(query), OrNum(topK, DefaultTopK), filter)
  IN IF threshold # Undef
     THEN SelectSeq(results, LAMBDA r : r.similarity >= threshold)
     ELSE results

\* Supermemory.remember (initialize on first use, then SimpleVectorStore.add)
Remember(content, metadata) ==
  /\ last = Nothing
  /\ backend = "simple"
  /\ Len(memories) < MaxMemories
  /\ isInitialized' = TRUE
  /\ nextId' = nextId + 1
  /\ memories' = Append(AfterInitialize(memories, isInitialized, disk),
                        NewMemory(nextId + 1, content, metadata))
  /\ last' = [op |-> "insert", backend |-> backend, id |-> nextId + 1, metadata |-> metadata]
  /\ UNCHANGED <<backend, index>>
  /\ UNCHANGED <<filterVars, disk, calls, provision>>

\* Supermemory.recall
Recall(query, topK, filter, threshold) ==
  /\ last = Nothing
  /\ backend = "simple"
  /\ isInitialized' = TRUE
  /\ last' = [op |-> "search", backend |-> backend, query |-> query, topK |-> topK,
              filter |-> filter, threshold |-> threshold,
              candidates |-> SimpleSearch(AfterInitialize(memories, isInitialized, disk),
                                          Embed(query), OrNum(topK, DefaultTopK), filter),
              results |-> RecallResults(AfterInitialize(memories, isInitialized, disk),
                                        query, topK, filter, threshold)]
  /\ memories' = AfterInitialize(memories, isInitialized, disk)
  /\ UNCHANGED <<backend, index, nextId>>
  /\ UNCHANGED <<filterVars, disk, calls, provision>>

(* ------------------------------------------------------------------ *)
(* VectorStore (FAISS IndexFlatL2)                                     *)
(* ------------------------------------------------------------------ *)

\* IndexFlatL2.search(queryEmbedding, k): the k nearest rows, nearest first
FaissSearch(mems, queryEmbedding, k) ==
  LET rows == [i \in 1..Len(mems) |->
                 [label |-> i,
                  distance |-> L2Distance(queryEmbedding, mems[i].embedding),
                  similarity |-> 0 - L2Distance(queryEmbedding, mems[i].embedding)]]
  IN Slice(SortDesc(rows), k)

\* the result loop of VectorStore.search: filter, convert the distance, stop at topK
RECURSIVE FaissCollect(_, _, _, _, _)
FaissCollect(found, mems, filter, topK, results) ==
  IF found = <<>> THEN results
  ELSE LET memory == mems[Head(found).label]
       IN IF ~matchesFilter(memory.metadata, filter)
          THEN FaissCollect(Tail(found), mems, filter, topK, results)
          ELSE LET pushed == Append(results,
                                [memory |-> memory,
                                 similarity |-> 10000 \div (100 + Head(found).distance)])
               IN IF Len(pushed) >= topK THEN pushed
                  ELSE FaissCollect(Tail(found), mems, filter, topK, pushed)

\* VectorStore.search
VectorStoreSearchResults(mems, queryEmbedding, topK, filter) ==
  IF Len(mems) = 0 THEN <<>>
  ELSE LET k == IF topK * 3 < Len(mems) THEN topK * 3 ELSE Len(mems)
       IN SortDesc(FaissCollect(FaissSearch(mems, queryEmbedding, k), mems, filter, topK, <<>>))

\* VectorStore.initialize: the index is created
VectorStoreInitialize ==
  /\ last = Nothing
  /\ backend = "faiss"
  /\ ~isInitialized
  /\ isInitialized' = TRUE
  /\ last' = [op |-> "initialize", backend |-> backend]
  /\ UNCHANGED <<backend, memories, index, nextId>>
  /\ UNCHANGED <<filterVars, disk, calls, provision>>

\* VectorStore.add
VectorStoreAdd(content, metadata) ==
  /\ last = Nothing
  /\ backend = "faiss"
  /\ Len(memories) < MaxMemories
  /\ IF ~isInitialized
     THEN /\ last' = [op |-> "error", backend |-> backend, message |-> "Vector store not initialized"]
          /\ UNCHANGED <<memories, nextId>>
     ELSE /\ nextId' = nextId + 1
          /\ memories' = Append(memories, NewMemory(nextId + 1, content, metadata))
          /\ last' = [op |-> "insert", backend |-> backend, id |-> nextId + 1, metadata |-> metadata]
  /\ UNCHANGED <<backend, isInitialized, index>>
  /\ UNCHANGED <<filterVars, disk, calls, provision>>

\* VectorStore.search (topK defaults to 5 when omitted)
VectorStoreSearch(query, topK, filter) ==
  /\ last = Nothing
  /\ backend = "faiss"
  /\ IF ~isInitialized
     THEN last' = [op |-> "error", backend |-> backend, message |-> "Vector store not initialized"]
     ELSE LET k == IF topK = Undef THEN DefaultTopK ELSE topK
              results == VectorStoreSearchResults(memories, Embed(query), k, filter)
          IN last' = [op |-> "search", backend |-> backend, query |-> query, topK |-> topK,
                      filter |-> filter, threshold |-> Undef,
                      candidates |-> results, results |-> results]
  /\ UNCHANGED <<backend, isInitialized, memories, index, nextId>>
  /\ UNCHANGED <<filterVars, disk, calls, provision>>

(* ------------------------------------------------------------------ *)
(* Hosted backends: Pinecone index, Chroma collection                  *)
(* ------------------------------------------------------------------ *)

IndexIds(idx) == {idx[i].id : i \in 1..Len(idx)}

RecordOf(idx, id) == idx[CHOOSE i \in 1..Len(idx) : idx[i].id = id]

\* index.upsert([vector]): replace the vector stored under the id, or add it
Upsert(idx, vector) ==
  IF vector.id \in IndexIds(idx)
  THEN [i \in 1..Len(idx) |-> IF idx[i].id = vector.id THEN vector ELSE idx[i]]
  ELSE Append(idx, vector)

\* collection.update({ids: [id], ...}): only an id the collection holds is changed
UpdateExisting(idx, vector) ==
  IF vector.id \in IndexIds(idx)
  THEN [i \in 1..Len(idx) |-> IF idx[i].id = vector.id THEN vector ELSE idx[i]]
  ELSE idx

\* the flat metadata PineconeRAG.create / update and ChromaRAG.create / update write
FlatMetadata(content, metadata) ==
  LET base == [content |-> content,
               userId |-> OrStr(metadata, "userId", "default"),
               conversationId |-> OrStr(metadata, "conversationId", "default"),
               messageType |-> OrStr(metadata, "messageType", "user"),
               importance |-> OrNumField(metadata, "importance", DefaultImportance),
               category |-> OrStr(metadata, "category", "general")]
  IN IF Has(metadata, "tags") /\ Len(metadata.tags) > 0
     THEN [tags |-> metadata.tags] @@ base
     ELSE base

NewVector(id, content, metadata) ==
  [id |-> id, values |-> Embed(content), metadata |-> FlatMetadata(content, metadata)]

\* mutant of BuildFilter: the owner is left out of the backend filter
BuildFilterNoOwner(filter) ==
  LET named == {k \in {"conversationId", "category"} : Has(filter, k) /\ filter[k] # ""}
  IN [k \in named |-> filter[k]]

\* the filter both retrieve methods build: only userId, conversationId and category, when truthy
BuildFilter(filter) ==
  LET named == {k \in {"userId", "conversationId", "category"} :
                   Has(filter, k) /\ filter[k] # ""}
  IN [k \in named |-> filter[k]]

\* exact-match metadata filter of the hosted backends ($eq / where)
MatchesWhere(metadata, where) ==
  \A k \in DOMAIN where : Has(metadata, k) /\ metadata[k] = where[k]

RECURSIVE SelectWhere(_, _)
SelectWhere(idx, where) ==
  IF idx = <<>> THEN <<>>
  ELSE IF MatchesWhere(Head(idx).metadata, where)
       THEN <<Head(idx)>> \o SelectWhere(Tail(idx), where)
       ELSE SelectWhere(Tail(idx), where)

\* the Memory object both retrieve methods rebuild from a match
MatchMemory(id, metadata) ==
  [id |-> id,
   content |-> metadata.content,
   embedding |-> <<>>,
   metadata |-> [userId |-> metadata.userId,
                 conversationId |-> metadata.conversationId,
                 messageType |-> metadata.messageType,
                 importance |-> metadata.importance,
                 tags |-> IF Has(metadata, "tags") THEN metadata.tags ELSE <<>>]]

(* ------------------------------------------------------------------ *)
(* PineconeRAG                                                         *)
(* ------------------------------------------------------------------ *)

PineconeDefaultThreshold == 30

\* index.query({vector, topK, filter}): the topK best cosine scores among the filtered vectors
PineconeQuery(idx, vector, topK, where) ==
  LET hits == SelectWhere(idx, where)
      scored == [i \in 1..Len(hits) |->
                   [id |-> hits[i].id,
                    metadata |-> hits[i].metadata,
                    similarity |-> cosineSimilarity(vector, hits[i].values)]]
  IN Slice(SortDesc(scored), topK)

ToResult(match) ==
  [memory |-> MatchMemory(match.id, match.metadata), similarity |-> match.similarity]

ToResults(matches) == [i \in 1..Len(matches) |-> ToResult(matches[i])]

\* the conversion loop of PineconeRAG.retrieve: if (match.score && match.score >= threshold)
PineconeKeep(matches, threshold) ==
  ToResults(SelectSeq(matches, LAMBDA m : m.similarity # 0 /\ m.similarity >= threshold))

\* PineconeRAG.initialize: the index handle is obtained
PineconeInitialize ==
  /\ last = Nothing
  /\ backend = "pinecone"
  /\ ~isInitialized
  /\ isInitialized' = TRUE
  /\ last' = [op |-> "initialize", backend |-> backend]
  /\ UNCHANGED <<backend, memories, index, nextId>>
  /\ UNCHANGED <<filterVars, disk, calls, provision>>

\* PineconeRAG.create
PineconeCreate(content, metadata) ==
  /\ last = Nothing
  /\ backend = "pinecone"
  /\ Len(index) < MaxMemories
  /\ IF ~isInitialized
     THEN /\ last' = [op |-> "error", backend |-> backend, message |-> "index is undefined"]
          /\ UNCHANGED <<index, nextId>>
     ELSE /\ nextId' = nextId + 1
          /\ index' = Upsert(index, NewVector(nextId + 1, content, metadata))
          /\ last' = [op |-> "insert", backend |-> backend, id |-> nextId + 1, metadata |-> metadata]
  /\ UNCHANGED <<backend, isInitialized, memories>>
  /\ UNCHANGED <<filterVars, disk, calls, provision>>

\* PineconeRAG.retrieve
PineconeRetrieve(query, topK, filter, threshold) ==
  /\ last = Nothing
  /\ backend = "pinecone"
  /\ IF ~isInitialized
     THEN last' = [op |-> "error", backend |-> backend, message |-> "index is undefined"]
     ELSE LET k == IF topK = Undef THEN DefaultTopK ELSE topK
              t == IF threshold = Undef THEN PineconeDefaultThreshold ELSE threshold
              matches == PineconeQuery(index, Embed(query), k, BuildFilter(filter))
          IN last' = [op |-> "search", backend |-> backend, query |-> query, topK |-> topK,
                      filter |-> filter, threshold |-> threshold,
                      candidates |-> ToResults(matches),
                      results |-> PineconeKeep(matches, t)]
  /\ UNCHANGED <<backend, isInitialized, memories, index, nextId>>
  /\ UNCHANGED <<filterVars, disk, calls, provision>>

\* PineconeRAG.update
PineconeUpdate(id, content, metadata) ==
  /\ last = Nothing
  /\ backend = "pinecone"
  /\ id \in IndexIds(index) \/ Len(index) < MaxMemories
  /\ IF ~isInitialized
     THEN /\ last' = [op |-> "error", backend |-> backend, message |-> "index is undefined"]
          /\ UNCHANGED index
     ELSE /\ index' = Upsert(index, NewVector(id, content, metadata))
          /\ last' = [op |-> "update", backend |-> backend, id |-> id, content |-> content,
                      metadata |-> metadata,
                      existed |-> id \in IndexIds(index),
                      before |-> IF id \in IndexIds(index)
                                 THEN RecordOf(index, id).metadata ELSE EmptyMeta]
  /\ UNCHANGED <<backend, isInitialized, memories, nextId>>
  /\ UNCHANGED <<filterVars, disk, calls, provision>>

(* ------------------------------------------------------------------ *)
(* Listing of an owner's memories (GET /api/memories)                  *)
(* ------------------------------------------------------------------ *)

\* topK the listing handlers pass
ListTopK == 100

\* the groups of the listing
ListCategories == {"personal", "preference", "project", "question", "general"}

\* the item the handler builds from one result
ListItem(result) ==
  LET md == result.memory.metadata
      category == IF Has(md, "category") /\ md.category # "" THEN md.category ELSE "general"
  IN [id |-> result.memory.id,
      content |-> result.memory.content,
      category |-> category,
      importance |-> OrNum(md.importance, DefaultImportance),
      userId |-> md.userId]

\* the group an item is pushed to
GroupOf(item) == IF item.category \in ListCategories THEN item.category ELSE "general"

\* memories.forEach(...): the items of each group, in result order
GroupItems(results) ==
  [g \in ListCategories |->
     LET items == [i \in 1..Len(results) |-> ListItem(results[i])]
     IN SelectSeq(items, LAMBDA item : GroupOf(item) = g)]

\* the /api/memories handler: retrieve('', {topK: 100, threshold: 0, filter: {userId}}), then group
ListMemories(userId) ==
  /\ last = Nothing
  /\ backend = "pinecone"
  /\ IF ~isInitialized
     THEN last' = [op |-> "error", backend |-> backend, message |-> "Pinecone not initialized"]
     ELSE LET results == PineconeKeep(PineconeQuery(index, Embed(""), ListTopK,
                                                    BuildFilter([userId |-> userId])), 0)
          IN last' = [op |-> "list", backend |-> backend, userId |-> userId,
                      memories |-> GroupItems(results),
                      total |-> Len(results)]
  /\ UNCHANGED <<backend, isInitialized, memories, index, nextId>>
  /\ UNCHANGED <<filterVars, disk, calls, provision>>

(* ------------------------------------------------------------------ *)
(* ChromaRAG                                                           *)
(* ------------------------------------------------------------------ *)

ChromaDefaultThreshold == 70

\* collection.query({queryEmbeddings, nResults, where}): the nResults nearest filtered rows
\* with their distances (similarity here is the order key, the negated distance)
ChromaQuery(idx, vector, nResults, where) ==
  LET hits == SelectWhere(idx, where)
      scored == [i \in 1..Len(hits) |->
                   [id |-> hits[i].id,
                    metadata |-> hits[i].metadata,
                    distance |-> L2Distance(vector, hits[i].values),
                    similarity |-> 0 - L2Distance(vector, hits[i].values)]]
  IN Slice(SortDesc(scored), nResults)

\* const distance = results.distances?.[0]?.[i] || 0; const similarity = 1 - distance
ChromaSimilarity(row) == 100 - OrNum(row.distance, 0)

ChromaResults(rows) ==
  [i \in 1..Len(rows) |->
     [memory |-> MatchMemory(rows[i].id, rows[i].metadata),
      similarity |-> ChromaSimilarity(rows[i])]]

\* the conversion loop of ChromaRAG.retrieve: if (similarity >= threshold)
ChromaKeep(rows, threshold) ==
  SelectSeq(ChromaResults(rows), LAMBDA r : r.similarity >= threshold)

\* ChromaRAG.initialize: the collection handle is obtained
ChromaInitialize ==
  /\ last = Nothing
  /\ backend = "chroma"
  /\ ~isInitialized
  /\ isInitialized' = TRUE
  /\ last' = [op |-> "initialize", backend |-> backend]
  /\ UNCHANGED <<backend, memories, index, nextId>>
  /\ UNCHANGED <<filterVars, disk, calls, provision>>

\* ChromaRAG.create
ChromaCreate(content, metadata) ==
  /\ last = Nothing
  /\ backend = "chroma"
  /\ Len(index) < MaxMemories
  /\ IF ~isInitialized
     THEN /\ last' = [op |-> "error", backend |-> backend, message |-> "collection is undefined"]
          /\ UNCHANGED <<index, nextId>>
     ELSE /\ nextId' = nextId + 1
          /\ index' = Append(index, NewVector(nextId + 1, content, metadata))
          /\ last' = [op |-> "insert", backend |-> backend, id |-> nextId + 1, metadata |-> metadata]
  /\ UNCHANGED <<backend, isInitialized, memories>>
  /\ UNCHANGED <<filterVars, disk, calls, provision>>

\* ChromaRAG.retrieve
ChromaRetrieve(query, topK, filter, threshold) ==
  /\ last = Nothing
  /\ backend = "chroma"
  /\ IF ~isInitialized
     THEN last' = [op |-> "error", backend |-> backend, message |-> "collection is undefined"]
     ELSE LET k == IF topK = Undef THEN DefaultTopK ELSE topK
              t == IF threshold = Undef THEN ChromaDefaultThreshold ELSE threshold
              rows == ChromaQuery(index, Embed(query), k, BuildFilter(filter))
          IN last' = [op |-> "search", backend |-> backend, query |-> query, topK |-> topK,
                      filter |-> filter, threshold |-> threshold,
                      candidates |-> ChromaResults(rows),
                      results |-> ChromaKeep(rows, t)]
  /\ UNCHANGED <<backend, isInitialized, memories, index, nextId>>
  /\ UNCHANGED <<filterVars, disk, calls, provision>>

\* ChromaRAG.update
ChromaUpdate(id, content, metadata) ==
  /\ last = Nothing
  /\ backend = "chroma"
  /\ IF ~isInitialized
     THEN /\ last' = [op |-> "error", backend |-> backend, message |-> "collection is undefined"]
          /\ UNCHANGED index
     ELSE /\ index' = UpdateExisting(index, NewVector(id, content, metadata))
          /\ last' = [op |-> "update", backend |-> backend, id |-> id, content |-> content,
                      metadata |-> metadata,
                      existed |-> id \in IndexIds(index),
                      before |-> IF id \in IndexIds(index)
                                 THEN RecordOf(index, id).metadata ELSE EmptyMeta]
  /\ UNCHANGED <<backend, isInitialized, memories, nextId>>
  /\ UNCHANGED <<filterVars, disk, calls, provision>>

(* ------------------------------------------------------------------ *)
(* Specification of the stores                                         *)
(* ------------------------------------------------------------------ *)

Filters == FilterPool \cup {NoFilter}

UpdateIds == IndexIds(index) \cup {ForeignId}

Init ==
  /\ backend \in Backends
  /\ isInitialized = FALSE
  /\ memories = <<>>
  /\ index = <<>>
  /\ nextId = 0
  /\ last = Nothing
  /\ userMessage = <<>>
  /\ aiResponse = <<>>
  /\ llmResponse = Nothing
  /\ fpc = "idle"
  /\ decision = Nothing
  /\ chat = Nothing
  /\ disk = NoFile
  /\ calls = NoCalls
  /\ provision = NotProvisioned

Insert ==
  \E content \in Contents, metadata \in MetaPool :
    \/ Remember(content, metadata)
    \/ VectorStoreAdd(content, metadata)
    \/ PineconeCreate(content, metadata)
    \/ ChromaCreate(content, metadata)

Search ==
  \E query \in Queries, topK \in TopKs, filter \in Filters, threshold \in Thresholds :
    \/ Recall(query, topK, filter, threshold)
    \/ threshold = Undef /\ VectorStoreSearch(query, topK, filter)
    \/ PineconeRetrieve(query, topK, filter, threshold)
    \/ ChromaRetrieve(query, topK, filter, threshold)

Update ==
  \E id \in UpdateIds, content \in Contents, metadata \in MetaPool :
    \/ PineconeUpdate(id, content, metadata)
    \/ ChromaUpdate(id, content, metadata)

List ==
  \E userId \in {"u1", "u2"} : ListMemories(userId)

\* the caller takes the result of the operation it issued
Return ==
  /\ last # Nothing
  /\ last' = Nothing
  /\ UNCHANGED <<backend, isInitialized, memories, index, nextId>>
  /\ UNCHANGED <<filterVars, disk, calls, provision>>

\* a caller issues one operation at a time and takes its result before the next
Next ==
  \/ VectorStoreInitialize
  \/ PineconeInitialize
  \/ ChromaInitialize
  \/ Insert
  \/ Search
  \/ Update
  \/ List
  \/ Return

Spec == Init /\ [][Next]_vars

(* ------------------------------------------------------------------ *)
(* SmartMemoryFilter                                                   *)
(* ------------------------------------------------------------------ *)

\* Text is a sequence of one-character strings.

UpperCase == <<"A", "B", "C", "D", "E", "F", "G", "H", "I", "J", "K", "L", "M",
               "N", "O", "P", "Q", "R", "S", "T", "U", "V", "W", "X", "Y", "Z">>
LowerCase == <<"a", "b", "c", "d", "e", "f", "g", "h", "i", "j", "k", "l", "m",
               "n", "o", "p", "q", "r", "s", "t", "u", "v", "w", "x", "y", "z">>

LowerChar(c) ==
  IF \E i \in 1..26 : UpperCase[i] = c
  THEN LowerCase[CHOOSE i \in 1..26 : UpperCase[i] = c]
  ELSE c

\* String.prototype.toLowerCase
ToLower(s) == [i \in 1..Len(s) |-> LowerChar(s[i])]

\* String.prototype.includes
Includes(s, k) == \E i \in 1..(Len(s) - Len(k) + 1) : SubSeq(s, i, i + Len(k) - 1) = k

\* s.split(' ').length: one piece more than there are spaces
SplitLength(s) == 1 + Cardinality({i \in 1..Len(s) : s[i] = " "})

\* keywords.some(k => lowerMessage.includes(k))
SomeIncluded(keywords, lowerMessage) ==
  \E i \in 1..Len(keywords) : Includes(lowerMessage, keywords[i])

greetings ==
  << <<"h", "i">>,
     <<"h", "e", "l", "l", "o">>,
     <<"h", "e", "y">>,
     <<"b", "y", "e">>,
     <<"g", "o", "o", "d", "b", "y", "e">>,
     <<"t", "h", "a", "n", "k", "s">>,
     <<"t", "h", "a", "n", "k", " ", "y", "o", "u">> >>

personalKeywords ==
  << <<"m", "y", " ", "n", "a", "m", "e", " ", "i", "s">>,
     <<"i", " ", "a", "m">>,
     <<"i", "'", "m">>,
     <<"i", " ", "l", "i", "v", "e">>,
     <<"i", " ", "w", "o", "r", "k">> >>

preferenceKeywords ==
  << <<"i", " ", "l", "i", "k", "e">>,
     <<"i", " ", "l", "o", "v", "e">>,
     <<"i", " ", "p", "r", "e", "f", "e", "r">>,
     <<"i", " ", "h", "a", "t", "e">>,
     <<"i", " ", "d", "i", "s", "l", "i", "k", "e">>,
     <<"f", "a", "v", "o", "r", "i", "t", "e">> >>

projectKeywords ==
  << <<"b", "u", "i", "l", "d", "i", "n", "g">>,
     <<"w", "o", "r", "k", "i", "n", "g", " ", "o", "n">>,
     <<"p", "r", "o", "j", "e", "c", "t">>,
     <<"d", "e", "v", "e", "l", "o", "p", "i", "n", "g">>,
     <<"c", "r", "e", "a", "t", "i", "n", "g">> >>

\* mutant of IsGreeting: a message that only starts with a greeting counts as one
IsGreetingPrefix(lowerMessage) ==
  \E i \in 1..Len(greetings) :
    /\ Len(lowerMessage) >= Len(greetings[i])
    /\ SubSeq(lowerMessage, 1, Len(greetings[i])) = greetings[i]

\* greetings.some(g => lowerMessage === g || lowerMessage === g + '!')
IsGreeting(lowerMessage) ==
  \E i \in 1..Len(greetings) :
    lowerMessage = greetings[i] \/ lowerMessage = greetings[i] \o <<"!">>

QuestionMinWords == 3
StoreMinWords == 5

\* mutant of heuristicAnalysis: the project rule is tried before the preference rule
heuristicAnalysisReordered(message, response) ==
  LET lowerMessage == ToLower(message)
  IN IF IsGreeting(lowerMessage)
     THEN [shouldStore |-> FALSE, reasoning |-> "Casual greeting", importance |-> 10,
           extractedFacts |-> <<>>, category |-> "casual"]
     ELSE IF SomeIncluded(personalKeywords, lowerMessage)
     THEN [shouldStore |-> TRUE, reasoning |-> "Contains personal information", importance |-> 90,
           extractedFacts |-> <<message>>, category |-> "personal"]
     ELSE IF SomeIncluded(projectKeywords, lowerMessage)
     THEN [shouldStore |-> TRUE, reasoning |-> "Contains project information", importance |-> 90,
           extractedFacts |-> <<message>>, category |-> "project"]
     ELSE IF SomeIncluded(preferenceKeywords, lowerMessage)
     THEN [shouldStore |-> TRUE, reasoning |-> "Contains user preference", importance |-> 80,
           extractedFacts |-> <<message>>, category |-> "preference"]
     ELSE IF Includes(lowerMessage, <<"?">>) /\ SplitLength(message) > QuestionMinWords
     THEN [shouldStore |-> TRUE, reasoning |-> "Important question and answer", importance |-> 70,
           extractedFacts |-> <<message, response>>, category |-> "question"]
     ELSE IF SplitLength(message) > StoreMinWords
     THEN [shouldStore |-> TRUE, reasoning |-> "Substantial conversation", importance |-> 60,
           extractedFacts |-> <<message>>, category |-> "important"]
     ELSE [shouldStore |-> FALSE, reasoning |-> "Too short or casual", importance |-> 20,
           extractedFacts |-> <<>>, category |-> "casual"]

\* SmartMemoryFilter.heuristicAnalysis
heuristicAnalysis(message, response) ==
  LET lowerMessage == ToLower(message)
  IN IF IsGreeting(lowerMessage)
     THEN [shouldStore |-> FALSE, reasoning |-> "Casual greeting", importance |-> 10,
           extractedFacts |-> <<>>, category |-> "casual"]
     ELSE IF SomeIncluded(personalKeywords, lowerMessage)
     THEN [shouldStore |-> TRUE, reasoning |-> "Contains personal information", importance |-> 90,
           extractedFacts |-> <<message>>, category |-> "personal"]
     ELSE IF SomeIncluded(preferenceKeywords, lowerMessage)
     THEN [shouldStore |-> TRUE, reasoning |-> "Contains user preference", importance |-> 80,
           extractedFacts |-> <<message>>, category |-> "preference"]
     ELSE IF SomeIncluded(projectKeywords, lowerMessage)
     THEN [shouldStore |-> TRUE, reasoning |-> "Contains project information", importance |-> 90,
           extractedFacts |-> <<message>>, category |-> "project"]
     ELSE IF Includes(lowerMessage, <<"?">>) /\ SplitLength(message) > QuestionMinWords
     THEN [shouldStore |-> TRUE, reasoning |-> "Important question and answer", importance |-> 70,
           extractedFacts |-> <<message, response>>, category |-> "question"]
     ELSE IF SplitLength(message) > StoreMinWords
     THEN [shouldStore |-> TRUE, reasoning |-> "Substantial conversation", importance |-> 60,
           extractedFacts |-> <<message>>, category |-> "important"]
     ELSE [shouldStore |-> FALSE, reasoning |-> "Too short or casual", importance |-> 20,
           extractedFacts |-> <<>>, category |-> "casual"]

\* pieces the modelled user messages are concatenated from
Fragments ==
  << <<"h", "i">>,
     <<"H", "i">>,
     <<"!">>,
     <<" ">>,
     <<"?">>,
     <<"i", " ", "a", "m">>,
     <<"i", " ", "l", "i", "k", "e">>,
     <<"p", "r", "o", "j", "e", "c", "t">>,
     <<"a", " ", "b", " ", "c">>,
     <<"t", "h", "a", "n", "k", " ", "y", "o", "u">> >>

RECURSIVE Concat(_)
Concat(frags) == IF frags = <<>> THEN <<>> ELSE Head(frags) \o Concat(Tail(frags))

FragmentLists ==
  UNION {[1..n -> 1..Len(Fragments)] : n \in 0..MaxFrags}

Messages == {Concat([i \in 1..Len(fl) |-> Fragments[fl[i]]]) : fl \in FragmentLists}

AiResponses == {<<>>, <<"o", "k">>}

\* what the analysis prompt can come back as: the body the model wrote ...
\* (shouldStoreType is typeof obj.shouldStore; obj carries shouldStore when it is a boolean)
Bodies ==
  { [json |-> "invalid"],
    [json |-> "null"],
    [json |-> "object", shouldStoreType |-> "undefined",
     obj |-> [reasoning |-> "r"]],
    [json |-> "object", shouldStoreType |-> "string",
     obj |-> [reasoning |-> "r", importance |-> 90,
              extractedFacts |-> <<>>, category |-> "personal"]],
    [json |-> "object", shouldStoreType |-> "boolean",
     obj |-> [shouldStore |-> TRUE, reasoning |-> "r", importance |-> 90,
              extractedFacts |-> <<>>, category |-> "personal"]],
    [json |-> "object", shouldStoreType |-> "boolean",
     obj |-> [shouldStore |-> FALSE, reasoning |-> "r", importance |-> 10,
              extractedFacts |-> <<>>, category |-> "casual"]],
    [json |-> "object", shouldStoreType |-> "boolean",
     obj |-> [shouldStore |-> TRUE, reasoning |-> "r", importance |-> 150,
              extractedFacts |-> <<>>, category |-> "project"]] }

\* ... and how it is wrapped: bare, in a ```json or ``` fence that opens the text,
\* or in a fence after some other text
Fences == {"none", "json", "plain", "preamble"}

LLMResponses ==
  {[kind |-> "throws"]} \cup
  {[kind |-> "text", fence |-> f, body |-> b] : f \in Fences, b \in Bodies}

\* the cleaning of analyzeConversation: a fence is removed only when the text starts with it
CleanedIsJson(response) ==
  /\ response.fence \in {"none", "json", "plain"}
  /\ response.body.json # "invalid"

\* mutant of TryDecision: the typeof check on shouldStore is missing
TryDecisionUnvalidated(response) ==
  IF response.kind = "throws" THEN [caught |-> TRUE]
  ELSE IF ~(response.fence \in {"none", "json", "plain"} /\ response.body.json # "invalid")
  THEN [caught |-> TRUE]
  ELSE IF response.body.json = "null" THEN [caught |-> TRUE]
  ELSE [caught |-> FALSE, decision |-> response.body.obj]

\* the try block of analyzeConversation; "caught" is whatever enters the catch block
TryDecision(response) ==
  IF response.kind = "throws" THEN [caught |-> TRUE]
  ELSE IF ~CleanedIsJson(response) THEN [caught |-> TRUE]
  ELSE IF response.body.json = "null" THEN [caught |-> TRUE]
  ELSE IF response.body.shouldStoreType # "boolean" THEN [caught |-> TRUE]
  ELSE [caught |-> FALSE, decision |-> response.body.obj]

\* SmartMemoryFilter.analyzeConversation, from the response of generateResponse on
analyzeConversation(message, response, llm) ==
  LET tried == TryDecision(llm)
  IN IF tried.caught
     THEN [status |-> "returned", value |-> heuristicAnalysis(message, response)]
     ELSE [status |-> "returned", value |-> tried.decision]

\* analyzeConversation is called and sends the prompt to llmProvider.generateResponse
AnalyzeStart ==
  /\ fpc = "idle"
  /\ fpc' = "awaiting"
  /\ UNCHANGED <<userMessage, aiResponse, llmResponse, decision, chat>>
  /\ UNCHANGED storeVars

\* generateResponse settles and analyzeConversation runs to its end
AnalyzeFinish(llm) ==
  /\ fpc = "awaiting"
  /\ llmResponse' = llm
  /\ decision' = analyzeConversation(userMessage, aiResponse, llm)
  /\ fpc' = "done"
  /\ UNCHANGED <<userMessage, aiResponse, chat>>
  /\ UNCHANGED storeVars

\* calls of llmProvider.generateResponse made so far by the analyzeConversation
\* call: its one call site is the first statement of the try block, in no loop
generateResponseCalls == IF fpc = "idle" THEN 0 ELSE 1

\* one call of analyzeConversation per behaviour: the policy keeps no state between calls
InitFilter ==
  /\ backend = "simple"
  /\ isInitialized = FALSE
  /\ memories = <<>>
  /\ index = <<>>
  /\ nextId = 0
  /\ last = Nothing
  /\ userMessage \in Messages
  /\ aiResponse \in AiResponses
  /\ llmResponse = Nothing
  /\ fpc = "idle"
  /\ decision = Nothing
  /\ chat = Nothing
  /\ disk = NoFile
  /\ calls = NoCalls
  /\ provision = NotProvisioned

NextFilter ==
  \/ AnalyzeStart
  \/ \E llm \in LLMResponses : AnalyzeFinish(llm)

SpecFilter == InitFilter /\ [][NextFilter]_vars

(* ------------------------------------------------------------------ *)
(* Chat requests: /api/chat (server.ts, netlify), InteractiveChatRAG,  *)
(* AgentOrchestrator.processQuery                                      *)
(* ------------------------------------------------------------------ *)

\* requests handled in one behaviour
MaxRequests == 2

\* who handles the request
ChatPaths == {"web", "netlify", "cliPinecone", "cliLocal", "orchestrator"}

\* the paths whose store is the Pinecone index (the others use Supermemory)
UsesPinecone(path) == path \in {"web", "netlify", "cliPinecone"}

\* InteractiveChatRAG.start prints the reply before the policy and the inserts run
PrintsReplyFirst(path) == path \in {"cliPinecone", "cliLocal"}

ChatMessages == {"t1", "t3"}
ChatUsers == {"u1", "u2"}
ReplyText == "t2"

\* the characters of the modelled texts, as the policy reads them
CharsOf(text) ==
  CASE text = "t1" -> <<"i", " ", "a", "m">>
    [] text = "t3" -> <<"h", "i">>
    [] OTHER       -> <<"o", "k">>

\* topK and threshold the chat handlers pass to retrieveAndGenerate
ChatTopK == 10
ChatThreshold == 30
\* processQuery: memoryTopK = 5
MemoryTopK == 5

\* the system prompt a handler passes ("" when it passes none)
SystemPromptOf(path) == IF path = "orchestrator" THEN "" ELSE "contextPrompt"

\* the [Memory i] blocks of a prompt: a header line and the content of each result
MemoryLines(results) ==
  [i \in 1..(2 * Len(results)) |->
     IF i % 2 = 1 THEN "[Memory]" ELSE results[i \div 2].memory.content]

\* the context PineconeRAG.retrieveAndGenerate (and ChromaRAG's, and the netlify
\* chat handler) composes, as a sequence of its parts
RagContext(systemPrompt, results, query) ==
  <<IF systemPrompt # "" THEN systemPrompt
    ELSE "You are a helpful AI assistant with perfect memory.">>
  \o <<"=== RELEVANT MEMORIES ===">>
  \o (IF Len(results) > 0 THEN MemoryLines(results)
      ELSE <<"No relevant memories found.">>)
  \o <<"=== END MEMORIES ===", "Current Query: ", query>>

\* Supermemory.formatContextForPrompt
formatContextForPrompt(context) ==
  (IF context.systemPrompt # "" THEN <<context.systemPrompt>> ELSE <<>>)
  \o (IF Len(context.memories) > 0
      THEN <<"=== RELEVANT MEMORIES ===">> \o MemoryLines(context.memories)
           \o <<"=== END MEMORIES ===">>
      ELSE <<>>)
  \o <<"Current Query: ", context.currentQuery>>

\* a handler waiting for its next request
ChatIdle(path, count) ==
  [pc |-> "idle", path |-> path, count |-> count,
   message |-> "", userId |-> "",
   retrieval |-> "none", memoriesUsed |-> 0, prompt |-> <<>>,
   generation |-> "none", reply |-> "",
   policyRun |-> FALSE, decision |-> Nothing,
   written |-> <<>>, storage |-> "none",
   status |-> "pending", delivered |-> FALSE, response |-> Nothing]

\* the request ends in the handler's catch block (or, in processQuery, rejects)
ChatFail(c, what) ==
  [c EXCEPT !.pc = "done",
            !.status = IF PrintsReplyFirst(c.path) /\ c.delivered THEN c.status ELSE "error",
            !.response = IF c.path \in {"web", "netlify"}
                         THEN [code |-> 500, error |-> what]
                         ELSE c.response]

\* the request ends normally
ChatSucceed(c, stored) ==
  [c EXCEPT !.pc = "done",
            !.status = "ok",
            !.delivered = TRUE,
            !.response = IF c.path \in {"web", "netlify"}
                         THEN [code |-> 200, ok |-> TRUE, response |-> c.reply,
                               memoriesUsed |-> c.memoriesUsed, stored |-> stored]
                         ELSE IF c.path = "orchestrator"
                         THEN [response |-> c.reply, memoriesUsed |-> c.memoriesUsed,
                               memoryIds |-> c.written]
                         ELSE c.response]

\* a message arrives (an empty message is rejected before any of the steps below)
ChatRequest(message, userId) ==
  /\ chat.pc = "idle"
  /\ chat.count < MaxRequests
  /\ message # ""
  /\ chat' = [ChatIdle(chat.path, chat.count + 1) EXCEPT
                !.pc = "retrieve", !.message = message, !.userId = userId]
  /\ UNCHANGED <<userMessage, aiResponse, llmResponse, fpc, decision>>
  /\ UNCHANGED storeVars

\* the memories the handler retrieves for the message
ChatResults(c) ==
  IF UsesPinecone(c.path)
  THEN PineconeKeep(PineconeQuery(index, Embed(c.message), OrNum(ChatTopK, DefaultTopK),
                                  BuildFilter([userId |-> c.userId])),
                    OrNum(ChatThreshold, PineconeDefaultThreshold))
  ELSE RecallResults(memories, c.message, OrNum(MemoryTopK, DefaultTopK),
                     IF c.path = "orchestrator" THEN NoFilter ELSE [userId |-> c.userId],
                     Undef)

\* the prompt the handler composes from them
ChatPrompt(c, results) ==
  IF UsesPinecone(c.path)
  THEN RagContext(SystemPromptOf(c.path), results, c.message)
  ELSE formatContextForPrompt([systemPrompt |-> SystemPromptOf(c.path),
                               memories |-> results, currentQuery |-> c.message])

\* step 1: embed the message and query the store; outcome is what the embedding
\* service and the store do
ChatRetrieve(outcome) ==
  /\ chat.pc = "retrieve"
  /\ IF outcome = "ok"
     THEN chat' = [chat EXCEPT !.pc = "generate", !.retrieval = "ok",
                               !.memoriesUsed = Len(ChatResults(chat)),
                               !.prompt = ChatPrompt(chat, ChatResults(chat))]
     ELSE IF chat.path = "netlify" /\ outcome = "queryFails"
     THEN \* the per-index try/catch of the netlify handler: logged, no memories
          chat' = [chat EXCEPT !.pc = "generate", !.retrieval = "failed",
                               !.memoriesUsed = 0,
                               !.prompt = ChatPrompt(chat, <<>>)]
     ELSE chat' = ChatFail([chat EXCEPT !.retrieval = "failed"], "retrieval")
  /\ isInitialized' = TRUE
  /\ UNCHANGED <<backend, memories, index, nextId, last, disk, calls, provision>>
  /\ UNCHANGED <<userMessage, aiResponse, llmResponse, fpc, decision>>

\* mutant of ChatGenerate: a failed generation is answered with a canned reply
ChatGenerateCannedReply(outcome) ==
  /\ chat.pc = "generate"
  /\ chat' = [chat EXCEPT
                !.generation = IF outcome = "fails" THEN "failed" ELSE "ok",
                !.reply = ReplyText,
                !.delivered = PrintsReplyFirst(chat.path),
                !.status = IF PrintsReplyFirst(chat.path) THEN "ok" ELSE "pending",
                !.pc = IF chat.path = "orchestrator" THEN "storeUser" ELSE "analyze"]
  /\ UNCHANGED <<userMessage, aiResponse, llmResponse, fpc, decision>>
  /\ UNCHANGED storeVars

\* step 2: llmProvider.generateResponse(prompt)
ChatGenerate(outcome) ==
  /\ chat.pc = "generate"
  /\ IF outcome = "fails"
     THEN chat' = ChatFail([chat EXCEPT !.generation = "failed"], "generation")
     ELSE chat' = [chat EXCEPT
                     !.generation = "ok",
                     !.reply = ReplyText,
                     !.delivered = PrintsReplyFirst(chat.path),
                     !.status = IF PrintsReplyFirst(chat.path) THEN "ok" ELSE "pending",
                     !.pc = IF chat.path = "orchestrator" THEN "storeUser" ELSE "analyze"]
  /\ UNCHANGED <<userMessage, aiResponse, llmResponse, fpc, decision>>
  /\ UNCHANGED storeVars

\* step 3: smartFilter.analyzeConversation(message, response)
ChatAnalyze(llm) ==
  /\ chat.pc = "analyze"
  /\ LET d == analyzeConversation(CharsOf(chat.message), CharsOf(chat.reply), llm).value
         c == [chat EXCEPT !.policyRun = TRUE, !.decision = d]
     IN chat' = IF d.shouldStore THEN [c EXCEPT !.pc = "storeUser"]
                ELSE ChatSucceed(c, FALSE)
  /\ UNCHANGED <<userMessage, aiResponse, llmResponse, fpc, decision>>
  /\ UNCHANGED storeVars

\* the conversation id a handler attaches
ConversationOf(path) ==
  CASE path \in {"web", "netlify"} -> "web"
    [] path = "orchestrator"       -> "default"
    [] OTHER                       -> "conv"

\* the metadata a handler passes with the user turn ...
UserTurnMetadata(c) ==
  IF UsesPinecone(c.path)
  THEN [userId |-> c.userId, conversationId |-> ConversationOf(c.path),
        importance |-> c.decision.importance, category |-> c.decision.category]
  ELSE IF c.path = "cliLocal"
  THEN [conversationId |-> ConversationOf(c.path), userId |-> c.userId,
        importance |-> c.decision.importance, messageType |-> "user"]
  ELSE [conversationId |-> ConversationOf(c.path), messageType |-> "user"]

\* ... and with the assistant turn
AssistantTurnMetadata(c) ==
  IF UsesPinecone(c.path)
  THEN [userId |-> c.userId, conversationId |-> ConversationOf(c.path),
        messageType |-> "assistant",
        importance |-> c.decision.importance, category |-> c.decision.category]
  ELSE IF c.path = "cliLocal"
  THEN [conversationId |-> ConversationOf(c.path), userId |-> c.userId,
        importance |-> c.decision.importance, messageType |-> "assistant"]
  ELSE [conversationId |-> ConversationOf(c.path), messageType |-> "assistant"]

\* one insert of the handler (rag.create or supermemory.remember); the request
\* ends in the catch block when it raises
ChatInsert(content, metadata, next) ==
  /\ nextId' = nextId + 1
  /\ IF UsesPinecone(chat.path)
     THEN /\ index' = Upsert(index, NewVector(nextId + 1, content, metadata))
          /\ UNCHANGED memories
     ELSE /\ memories' = Append(memories, NewMemory(nextId + 1, content, metadata))
          /\ UNCHANGED index
  /\ LET c == [chat EXCEPT !.written = Append(chat.written, nextId + 1),
                           !.storage = "ok"]
     IN chat' = IF next = "done" THEN ChatSucceed(c, TRUE) ELSE [c EXCEPT !.pc = next]

\* step 4a: the user turn is stored
ChatStoreUser(outcome) ==
  /\ chat.pc = "storeUser"
  /\ IF outcome = "fails"
     THEN /\ chat' = ChatFail([chat EXCEPT !.storage = "failed"], "storage")
          /\ UNCHANGED <<memories, index, nextId>>
     ELSE ChatInsert(chat.message, UserTurnMetadata(chat), "storeAssistant")
  /\ UNCHANGED <<backend, isInitialized, last, disk, calls, provision>>
  /\ UNCHANGED <<userMessage, aiResponse, llmResponse, fpc, decision>>

\* step 4b: the assistant turn is stored and the response is sent
ChatStoreAssistant(outcome) ==
  /\ chat.pc = "storeAssistant"
  /\ IF outcome = "fails"
     THEN /\ chat' = ChatFail([chat EXCEPT !.storage = "failed"], "storage")
          /\ UNCHANGED <<memories, index, nextId>>
     ELSE ChatInsert(chat.reply, AssistantTurnMetadata(chat), "done")
  /\ UNCHANGED <<backend, isInitialized, last, disk, calls, provision>>
  /\ UNCHANGED <<userMessage, aiResponse, llmResponse, fpc, decision>>

\* the handler is ready for the next request
ChatReturn ==
  /\ chat.pc = "done"
  /\ chat' = ChatIdle(chat.path, chat.count)
  /\ UNCHANGED <<userMessage, aiResponse, llmResponse, fpc, decision>>
  /\ UNCHANGED storeVars

RetrievalOutcomes == {"ok", "embedFails", "queryFails"}
CallOutcomes == {"ok", "fails"}

\* the server has started: the store is constructed and empty
InitChat ==
  /\ \E path \in ChatPaths :
       /\ chat = ChatIdle(path, 0)
       /\ backend = IF UsesPinecone(path) THEN "pinecone" ELSE "simple"
       /\ isInitialized = (path # "orchestrator")
  /\ memories = <<>>
  /\ index = <<>>
  /\ nextId = 0
  /\ last = Nothing
  /\ userMessage = <<>>
  /\ aiResponse = <<>>
  /\ llmResponse = Nothing
  /\ fpc = "idle"
  /\ decision = Nothing
  /\ disk = NoFile
  /\ calls = NoCalls
  /\ provision = NotProvisioned

ChatRequestStep == \E message \in ChatMessages, userId \in ChatUsers : ChatRequest(message, userId)
ChatRetrieveStep == \E outcome \in RetrievalOutcomes : ChatRetrieve(outcome)
ChatGenerateStep == \E outcome \in CallOutcomes : ChatGenerate(outcome)
ChatAnalyzeStep == \E llm \in LLMResponses : ChatAnalyze(llm)
ChatStoreUserStep == \E outcome \in CallOutcomes : ChatStoreUser(outcome)
ChatStoreAssistantStep == \E outcome \in CallOutcomes : ChatStoreAssistant(outcome)

NextChat ==
  \/ ChatRequestStep
  \/ ChatRetrieveStep
  \/ ChatGenerateStep
  \/ ChatAnalyzeStep
  \/ ChatStoreUserStep
  \/ ChatStoreAssistantStep
  \/ ChatReturn

SpecChat == InitChat /\ [][NextChat]_vars

(* ------------------------------------------------------------------ *)
(* Batch inserts: PineconeRAG.createBatch, ChromaRAG.createBatch,      *)
(* Supermemory.rememberBatch                                           *)
(* ------------------------------------------------------------------ *)

\* longest list of items given to one batch insert
MaxBatch == 201

\* PineconeRAG.createBatch: const batchSize = 100
BatchSize == 100

\* a list of n items; the contents alternate so that neighbours differ
BatchItems(n, metadata) ==
  [i \in 1..n |-> [content |-> IF i % 2 = 1 THEN "t1" ELSE "t2", metadata |-> metadata]]

BatchMetadata == {EmptyMeta, [userId |-> "u1"]}

\* the ids the first loop generates, one uuid per item in input order
BatchIds(first, n) == [i \in 1..n |-> first + i]

\* the vectors the first loop of createBatch builds
BatchVectors(ids, items) ==
  [i \in 1..Len(items) |-> NewVector(ids[i], items[i].content, items[i].metadata)]

\* the Memory objects rememberBatch builds: metadata is item.metadata || {}
BatchMemories(ids, items) ==
  [i \in 1..Len(items) |->
     [id |-> ids[i], content |-> items[i].content,
      embedding |-> Embed(items[i].content), metadata |-> items[i].metadata]]

\* mutant of BatchSlice: everything that is left goes into one call
BatchSliceRest(vectors, i) == SubSeq(vectors, i + 1, Len(vectors))

\* vectors.slice(i, i + batchSize)
BatchSlice(vectors, i) ==
  SubSeq(vectors, i + 1, IF i + BatchSize < Len(vectors) THEN i + BatchSize ELSE Len(vectors))

\* index.upsert(batch), the ids within one batch being distinct: stored vectors
\* with an id of the batch are replaced, the other vectors of the batch are added
UpsertAll(idx, batch) ==
  [i \in 1..Len(idx) |->
     IF \E k \in 1..Len(batch) : batch[k].id = idx[i].id
     THEN batch[CHOOSE k \in 1..Len(batch) : batch[k].id = idx[i].id]
     ELSE idx[i]]
  \o SelectSeq(batch, LAMBDA v : v.id \notin IndexIds(idx))

\* PineconeRAG.createBatch, first loop: embed every item and give it an id
PineconeCreateBatchStart(items) ==
  /\ last = Nothing
  /\ backend = "pinecone"
  /\ nextId + Len(items) <= MaxBatch
  /\ nextId' = nextId + Len(items)
  /\ last' = [op |-> "createBatch", backend |-> backend, items |-> items,
              ids |-> BatchIds(nextId, Len(items)),
              vectors |-> BatchVectors(BatchIds(nextId, Len(items)), items),
              i |-> 0, calls |-> <<>>]
  /\ UNCHANGED <<backend, isInitialized, memories, index>>
  /\ UNCHANGED <<filterVars, disk, calls, provision>>

\* PineconeRAG.createBatch, one round of the second loop: await this.index.upsert(batch)
PineconeCreateBatchUpsert(outcome) ==
  /\ last.op = "createBatch"
  /\ last.i < Len(last.vectors)
  /\ IF outcome = "fails"
     THEN /\ last' = [op |-> "error", backend |-> backend, message |-> "upsert failed"]
          /\ UNCHANGED index
     ELSE LET batch == BatchSlice(last.vectors, last.i)
          IN /\ index' = UpsertAll(index, batch)
             /\ last' = [last EXCEPT
                           !.i = last.i + BatchSize,
                           !.calls = Append(last.calls, [k \in 1..Len(batch) |-> batch[k].id])]
  /\ UNCHANGED <<backend, isInitialized, memories, nextId>>
  /\ UNCHANGED <<filterVars, disk, calls, provision>>

\* PineconeRAG.createBatch: the loop is over, the ids are returned
PineconeCreateBatchReturn ==
  /\ last.op = "createBatch"
  /\ last.i >= Len(last.vectors)
  /\ last' = [op |-> "batchDone", backend |-> backend, items |-> last.items,
              ids |-> last.ids, calls |-> last.calls]
  /\ UNCHANGED <<backend, isInitialized, memories, index, nextId>>
  /\ UNCHANGED <<filterVars, disk, calls, provision>>

\* ChromaRAG.createBatch: one collection.add for the whole list
ChromaCreateBatch(items) ==
  /\ last = Nothing
  /\ backend = "chroma"
  /\ nextId + Len(items) <= MaxBatch
  /\ nextId' = nextId + Len(items)
  /\ LET ids == BatchIds(nextId, Len(items))
     IN /\ index' = index \o BatchVectors(ids, items)
        /\ last' = [op |-> "batchDone", backend |-> backend, items |-> items,
                    ids |-> ids, calls |-> <<ids>>]
  /\ UNCHANGED <<backend, isInitialized, memories>>
  /\ UNCHANGED <<filterVars, disk, calls, provision>>

\* Supermemory.rememberBatch: build the memories, then SimpleVectorStore.addBatch
RememberBatch(items) ==
  /\ last = Nothing
  /\ backend = "simple"
  /\ nextId + Len(items) <= MaxBatch
  /\ isInitialized' = TRUE
  /\ nextId' = nextId + Len(items)
  /\ LET ids == BatchIds(nextId, Len(items))
     IN /\ memories' = AfterInitialize(memories, isInitialized, disk) \o BatchMemories(ids, items)
        /\ last' = [op |-> "batchDone", backend |-> backend, items |-> items,
                    ids |-> ids, calls |-> <<ids>>]
  /\ UNCHANGED <<backend, index>>
  /\ UNCHANGED <<filterVars, disk, calls, provision>>

BatchLists == {BatchItems(n, metadata) : n \in 0..MaxBatch, metadata \in BatchMetadata}

\* a store that is constructed, connected and empty
InitBatch ==
  /\ backend \in {"simple", "pinecone", "chroma"}
  /\ isInitialized = TRUE
  /\ memories = <<>>
  /\ index = <<>>
  /\ nextId = 0
  /\ last = Nothing
  /\ userMessage = <<>>
  /\ aiResponse = <<>>
  /\ llmResponse = Nothing
  /\ fpc = "idle"
  /\ decision = Nothing
  /\ chat = Nothing
  /\ disk = NoFile
  /\ calls = NoCalls
  /\ provision = NotProvisioned

\* the checked behaviours give each store one batch
PineconeCreateBatchStartStep ==
  \E items \in BatchLists : nextId = 0 /\ PineconeCreateBatchStart(items)
PineconeCreateBatchUpsertStep == \E outcome \in {"ok", "fails"} : PineconeCreateBatchUpsert(outcome)
ChromaCreateBatchStep ==
  \E items \in BatchLists : nextId = 0 /\ ChromaCreateBatch(items)
RememberBatchStep ==
  \E items \in BatchLists : nextId = 0 /\ RememberBatch(items)

\* the caller takes the ids (or the error) of the batch insert
BatchReturn ==
  /\ last.op \in {"batchDone", "error"}
  /\ last' = Nothing
  /\ UNCHANGED <<backend, isInitialized, memories, index, nextId>>
  /\ UNCHANGED <<filterVars, disk, calls, provision>>

NextBatch ==
  \/ PineconeCreateBatchStartStep
  \/ PineconeCreateBatchUpsertStep
  \/ PineconeCreateBatchReturn
  \/ ChromaCreateBatchStep
  \/ RememberBatchStep
  \/ BatchReturn

SpecBatch == InitBatch /\ [][NextBatch]_vars

(* ------------------------------------------------------------------ *)
(* SimpleVectorStore used directly, and its persistence                *)
(* ------------------------------------------------------------------ *)

\* uuids generated in one checked behaviour
MaxUuids == 3

\* Memory objects a caller of the exported SimpleVectorStore passes to add / addBatch;
\* their ids are the caller's own, never ones uuidv4 returned
CallerMemories ==
  {[id |-> id, content |-> "t1", embedding |-> Embed("t1"), metadata |-> EmptyMeta] :
     id \in {-1, -2}}

CallerBatches ==
  {<<>>} \cup {<<m>> : m \in CallerMemories}
         \cup {<<m, n>> : m \in CallerMemories, n \in CallerMemories}

\* SimpleVectorStore.add
SimpleAdd(memory) ==
  /\ last = Nothing
  /\ backend = "simple"
  /\ Len(memories) < MaxMemories
  /\ memories' = Append(memories, memory)
  /\ last' = [op |-> "add", backend |-> backend]
  /\ UNCHANGED <<backend, isInitialized, index, nextId, disk>>
  /\ UNCHANGED <<filterVars, calls, provision>>

\* SimpleVectorStore.addBatch: add, for each memory in turn
SimpleAddBatch(batch) ==
  /\ last = Nothing
  /\ backend = "simple"
  /\ Len(memories) + Len(batch) <= MaxMemories
  /\ memories' = memories \o batch
  /\ last' = [op |-> "addBatch", backend |-> backend]
  /\ UNCHANGED <<backend, isInitialized, index, nextId, disk>>
  /\ UNCHANGED <<filterVars, calls, provision>>

\* SimpleVectorStore.clear (Supermemory.clear)
SimpleClear ==
  /\ last = Nothing
  /\ backend = "simple"
  /\ memories' = <<>>
  /\ last' = [op |-> "clear", backend |-> backend]
  /\ UNCHANGED <<backend, isInitialized, index, nextId, disk>>
  /\ UNCHANGED <<filterVars, calls, provision>>

\* SimpleVectorStore.saveToDisk (Supermemory.save)
SaveToDisk ==
  /\ last = Nothing
  /\ backend = "simple"
  /\ disk' = [exists |-> TRUE, data |-> memories]
  /\ last' = [op |-> "saveToDisk", backend |-> backend]
  /\ UNCHANGED <<backend, isInitialized, memories, index, nextId>>
  /\ UNCHANGED <<filterVars, calls, provision>>

\* SimpleVectorStore.loadFromDisk (also run by initialize)
LoadFromDisk ==
  /\ last = Nothing
  /\ backend = "simple"
  /\ memories' = LoadedFromDisk(memories, disk)
  /\ last' = [op |-> "loadFromDisk", backend |-> backend]
  /\ UNCHANGED <<backend, isInitialized, index, nextId, disk>>
  /\ UNCHANGED <<filterVars, calls, provision>>

SmallBatches == {BatchItems(n, EmptyMeta) : n \in 0..2}

\* a store object and its facade, just constructed
InitStore ==
  /\ backend = "simple"
  /\ isInitialized = FALSE
  /\ memories = <<>>
  /\ index = <<>>
  /\ nextId = 0
  /\ last = Nothing
  /\ userMessage = <<>>
  /\ aiResponse = <<>>
  /\ llmResponse = Nothing
  /\ fpc = "idle"
  /\ decision = Nothing
  /\ chat = Nothing
  /\ disk = NoFile
  /\ calls = NoCalls
  /\ provision = NotProvisioned

SimpleAddStep == \E memory \in CallerMemories : SimpleAdd(memory)
SimpleAddBatchStep == \E batch \in CallerBatches : SimpleAddBatch(batch)
StoreRememberStep ==
  \E content \in Contents, metadata \in {EmptyMeta, [userId |-> "u1"]} :
    nextId < MaxUuids /\ Remember(content, metadata)
StoreRememberBatchStep ==
  \E items \in SmallBatches :
    /\ nextId + Len(items) <= MaxUuids
    /\ Len(memories) + Len(items) <= MaxMemories
    /\ RememberBatch(items)

NextStore ==
  \/ SimpleAddStep
  \/ SimpleAddBatchStep
  \/ StoreRememberStep
  \/ StoreRememberBatchStep
  \/ SimpleClear
  \/ SaveToDisk
  \/ LoadFromDisk
  \/ Return

SpecStore == InitStore /\ [][NextStore]_vars

(* ------------------------------------------------------------------ *)
(* Vector dimension of the in-process store                            *)
(* ------------------------------------------------------------------ *)

\* this.dimension of the modelled store (the vectors of Embed have this length)
Dimension == 2

\* EmbeddingService.embed: the local model's vector, or the array a remote
\* provider returned, whose length embedRemote does not look at
EmbedOutputs(text) == {Embed(text), Embed(text) \o <<0>>}

\* the similarity loop of SimpleVectorStore.search reaches a memory whose
\* vector length differs from the query's: cosineSimilarity throws
SearchThrows(mems, queryEmbedding, filter) ==
  \E i \in 1..Len(mems) :
    /\ matchesFilter(mems[i].metadata, filter)
    /\ Len(mems[i].embedding) # Len(queryEmbedding)

\* Supermemory.remember with the vector the embedding service returned
RememberEmbedded(content, metadata, embedding) ==
  /\ last = Nothing
  /\ backend = "simple"
  /\ Len(memories) < MaxMemories
  /\ isInitialized' = TRUE
  /\ nextId' = nextId + 1
  /\ memories' = Append(AfterInitialize(memories, isInitialized, disk),
                        [NewMemory(nextId + 1, content, metadata) EXCEPT !.embedding = embedding])
  /\ last' = [op |-> "insert", backend |-> backend, id |-> nextId + 1, metadata |-> metadata]
  /\ UNCHANGED <<backend, index>>
  /\ UNCHANGED <<filterVars, disk, calls, provision>>

\* Supermemory.recall with the vector the embedding service returned for the query
RecallEmbedded(query, queryEmbedding, filter) ==
  /\ last = Nothing
  /\ backend = "simple"
  /\ isInitialized' = TRUE
  /\ memories' = AfterInitialize(memories, isInitialized, disk)
  /\ last' = IF SearchThrows(memories', queryEmbedding, filter)
             THEN [op |-> "error", backend |-> backend, during |-> "search",
                   message |-> "Vectors must have the same dimension"]
             ELSE [op |-> "search", backend |-> backend, query |-> query,
                   results |-> SimpleSearch(memories', queryEmbedding, DefaultTopK, filter)]
  /\ UNCHANGED <<backend, index, nextId>>
  /\ UNCHANGED <<filterVars, disk, calls, provision>>

RememberEmbeddedStep ==
  \E content \in Contents, metadata \in {EmptyMeta, [userId |-> "u1"]} :
    \E embedding \in EmbedOutputs(content) :
      nextId < MaxUuids /\ RememberEmbedded(content, metadata, embedding)

RecallEmbeddedStep ==
  \E query \in Queries, filter \in {EmptyMeta, [userId |-> "u1"]} :
    \E queryEmbedding \in EmbedOutputs(query) :
      RecallEmbedded(query, queryEmbedding, filter)

NextDim ==
  \/ RememberEmbeddedStep
  \/ RecallEmbeddedStep
  \/ SimpleClear
  \/ Return

SpecDim == InitStore /\ [][NextDim]_vars

(* ------------------------------------------------------------------ *)
(* Filtered search of the FAISS store                                  *)
(* ------------------------------------------------------------------ *)

\* largest number of records the FAISS store holds here
MaxFaiss == 4

\* the two kinds of Memory a caller adds: close to the query "t1" and owned by
\* nobody, or far from it and owned by u1
FaissKinds ==
  {[content |-> "t1", metadata |-> EmptyMeta],
   [content |-> "t3", metadata |-> [userId |-> "u1"]]}

FaissBatches ==
  UNION {[1..n -> FaissKinds] : n \in 0..MaxFaiss}

\* VectorStore.addBatch: add, for each memory in turn
VectorStoreAddBatch(items) ==
  /\ last = Nothing
  /\ backend = "faiss"
  /\ Len(memories) + Len(items) <= MaxFaiss
  /\ IF ~isInitialized
     THEN /\ last' = [op |-> "error", backend |-> backend, message |-> "Vector store not initialized"]
          /\ UNCHANGED <<memories, nextId>>
     ELSE /\ nextId' = nextId + Len(items)
          /\ memories' = memories \o
               [i \in 1..Len(items) |-> NewMemory(nextId + i, items[i].content, items[i].metadata)]
          /\ last' = [op |-> "addBatch", backend |-> backend]
  /\ UNCHANGED <<backend, isInitialized, index>>
  /\ UNCHANGED <<filterVars, disk, calls, provision>>

\* a FAISS store, just constructed
InitFaiss ==
  /\ backend = "faiss"
  /\ isInitialized = FALSE
  /\ memories = <<>>
  /\ index = <<>>
  /\ nextId = 0
  /\ last = Nothing
  /\ userMessage = <<>>
  /\ aiResponse = <<>>
  /\ llmResponse = Nothing
  /\ fpc = "idle"
  /\ decision = Nothing
  /\ chat = Nothing
  /\ disk = NoFile
  /\ calls = NoCalls
  /\ provision = NotProvisioned

VectorStoreAddBatchStep == \E items \in FaissBatches : VectorStoreAddBatch(items)

VectorStoreSearchStep ==
  \E query \in {"t1", "t3"}, topK \in {1, 2, Undef}, filter \in {EmptyMeta, [userId |-> "u1"]} :
    VectorStoreSearch(query, topK, filter)

NextFaiss ==
  \/ VectorStoreInitialize
  \/ VectorStoreAddBatchStep
  \/ VectorStoreSearchStep
  \/ Return

SpecFaiss == InitFaiss /\ [][NextFaiss]_vars

(* ------------------------------------------------------------------ *)
(* Backend calls of PineconeRAG that may fail                          *)
(* ------------------------------------------------------------------ *)

\* what one call to the Pinecone client (index.upsert, index.query) does
BackendOutcomes == {"ok", "timeout", "rateLimit"}

\* the rejection of a backend call, as the client raised it
BackendError(outcome) == [message |-> outcome]

\* PineconeRAG.create: embed, then a single awaited index.upsert
PineconeCreateCall(content, metadata, outcome) ==
  /\ last = Nothing
  /\ backend = "pinecone"
  /\ isInitialized
  /\ Len(index) < MaxMemories
  /\ IF outcome = "ok"
     THEN /\ nextId' = nextId + 1
          /\ index' = Upsert(index, NewVector(nextId + 1, content, metadata))
          /\ last' = [op |-> "insert", backend |-> backend, id |-> nextId + 1,
                      metadata |-> metadata, attempts |-> 1]
     ELSE /\ last' = [op |-> "error", backend |-> backend, during |-> "create",
                      attempts |-> 1, thrown |-> BackendError(outcome)]
          /\ UNCHANGED <<index, nextId>>
  /\ UNCHANGED <<backend, isInitialized, memories>>
  /\ UNCHANGED <<filterVars, disk, calls, provision>>

\* PineconeRAG.retrieve: embed, then a single awaited index.query
PineconeRetrieveCall(query, filter, outcome) ==
  /\ last = Nothing
  /\ backend = "pinecone"
  /\ isInitialized
  /\ IF outcome = "ok"
     THEN LET matches == PineconeQuery(index, Embed(query), DefaultTopK, BuildFilter(filter))
          IN last' = [op |-> "search", backend |-> backend, query |-> query, topK |-> Undef,
                      filter |-> filter, threshold |-> Undef,
                      candidates |-> ToResults(matches),
                      results |-> PineconeKeep(matches, PineconeDefaultThreshold),
                      attempts |-> 1]
     ELSE last' = [op |-> "error", backend |-> backend, during |-> "retrieve",
                   attempts |-> 1, thrown |-> BackendError(outcome)]
  /\ UNCHANGED <<backend, isInitialized, memories, index, nextId>>
  /\ UNCHANGED <<filterVars, disk, calls, provision>>

\* a Pinecone store, just constructed
InitRetry ==
  /\ backend = "pinecone"
  /\ isInitialized = FALSE
  /\ memories = <<>>
  /\ index = <<>>
  /\ nextId = 0
  /\ last = Nothing
  /\ userMessage = <<>>
  /\ aiResponse = <<>>
  /\ llmResponse = Nothing
  /\ fpc = "idle"
  /\ decision = Nothing
  /\ chat = Nothing
  /\ disk = NoFile
  /\ calls = NoCalls
  /\ provision = NotProvisioned

PineconeCreateCallStep ==
  \E content \in Contents, metadata \in MetaPool, outcome \in BackendOutcomes :
    PineconeCreateCall(content, metadata, outcome)

PineconeRetrieveCallStep ==
  \E query \in Queries, filter \in Filters, outcome \in BackendOutcomes :
    PineconeRetrieveCall(query, filter, outcome)

NextRetry ==
  \/ PineconeInitialize
  \/ PineconeCreateCallStep
  \/ PineconeRetrieveCallStep
  \/ Return

SpecRetry == InitRetry /\ [][NextRetry]_vars

(* ------------------------------------------------------------------ *)
(* Loading the persisted records at initialization                     *)
(* ------------------------------------------------------------------ *)

\* what reading and parsing memories.json does when the file exists
LoadOutcomes == {"ok", "readFails"}

\* Supermemory.initialize: return if initialized; else load the embedding
\* model, then SimpleVectorStore.initialize -> loadFromDisk, whose try/catch
\* logs a read or parse error and returns normally
SupermemoryInitialize(outcome) ==
  /\ last = Nothing
  /\ backend = "simple"
  /\ IF isInitialized
     THEN /\ last' = [op |-> "initialize", backend |-> backend, load |-> "skipped",
                      result |-> "resolved"]
          /\ UNCHANGED <<isInitialized, memories>>
     ELSE /\ isInitialized' = TRUE
          /\ memories' = IF disk.exists /\ outcome = "ok" THEN disk.data ELSE memories
          /\ last' = [op |-> "initialize", backend |-> backend,
                      load |-> IF disk.exists THEN outcome ELSE "noFile",
                      result |-> "resolved"]
  /\ UNCHANGED <<backend, index, nextId, disk>>
  /\ UNCHANGED <<filterVars, calls, provision>>

\* the process ends and a new one constructs a Supermemory over the same directory
Restart ==
  /\ last = Nothing
  /\ backend = "simple"
  /\ isInitialized
  /\ isInitialized' = FALSE
  /\ memories' = <<>>
  /\ UNCHANGED <<backend, index, nextId, last, disk, calls, provision>>
  /\ UNCHANGED <<filterVars, calls, provision>>

SupermemoryInitializeStep == \E outcome \in LoadOutcomes : SupermemoryInitialize(outcome)

NextPersist ==
  \/ SupermemoryInitializeStep
  \/ StoreRememberStep
  \/ SaveToDisk
  \/ Restart
  \/ Return

SpecPersist == InitStore /\ [][NextPersist]_vars

(* ------------------------------------------------------------------ *)
(* Supermemory.rememberConversation                                    *)
(* ------------------------------------------------------------------ *)

\* extra metadata callers pass to rememberConversation
ConversationMetaPool ==
  { EmptyMeta,
    [userId |-> "u1", importance |-> 90],
    [messageType |-> "assistant", conversationId |-> "c9"],
    [messageType |-> "user"] }

ConversationIds == {"c1", "c2"}

\* { conversationId, ...metadata }
BaseMetadata(conversationId, metadata) == metadata @@ [conversationId |-> conversationId]

\* { ...baseMetadata, messageType: 'user' }
UserMetadata(baseMetadata) == [messageType |-> "user"] @@ baseMetadata

\* mutant of AssistantMetadata: the caller's messageType wins
AssistantMetadataCallerWins(baseMetadata) == baseMetadata @@ [messageType |-> "assistant"]

\* { ...baseMetadata, messageType: 'assistant' }
AssistantMetadata(baseMetadata) == [messageType |-> "assistant"] @@ baseMetadata

\* rememberConversation up to its first await: remember(userMessage, ...);
\* outcome is what the embedding of the user message does
RememberConversationUser(userText, assistantText, conversationId, metadata, outcome) ==
  /\ last = Nothing
  /\ backend = "simple"
  /\ Len(memories) + 2 <= MaxMemories
  /\ isInitialized' = TRUE
  /\ IF outcome = "fails"
     THEN /\ memories' = AfterInitialize(memories, isInitialized, disk)
          /\ last' = [op |-> "error", backend |-> backend, during |-> "userTurn"]
          /\ UNCHANGED nextId
     ELSE /\ nextId' = nextId + 1
          /\ memories' = Append(AfterInitialize(memories, isInitialized, disk),
                                NewMemory(nextId + 1, userText,
                                          UserMetadata(BaseMetadata(conversationId, metadata))))
          /\ last' = [op |-> "conversationPending", backend |-> backend,
                      assistantMessage |-> assistantText,
                      conversationId |-> conversationId, metadata |-> metadata,
                      userMemoryId |-> nextId + 1]
  /\ UNCHANGED <<backend, index>>
  /\ UNCHANGED <<filterVars, disk, calls, provision>>

\* the rest of rememberConversation: remember(assistantMessage, ...), then return both ids
RememberConversationAssistant(outcome) ==
  /\ last.op = "conversationPending"
  /\ IF outcome = "fails"
     THEN /\ last' = [op |-> "error", backend |-> backend, during |-> "assistantTurn"]
          /\ UNCHANGED <<memories, nextId>>
     ELSE /\ nextId' = nextId + 1
          /\ memories' = Append(memories,
                                NewMemory(nextId + 1, last.assistantMessage,
                                          AssistantMetadata(BaseMetadata(last.conversationId,
                                                                         last.metadata))))
          /\ last' = [op |-> "conversation", backend |-> backend,
                      conversationId |-> last.conversationId, metadata |-> last.metadata,
                      userMemoryId |-> last.userMemoryId, assistantMemoryId |-> nextId + 1]
  /\ UNCHANGED <<backend, isInitialized, index>>
  /\ UNCHANGED <<filterVars, disk, calls, provision>>

\* the caller takes the ids (or the error) of rememberConversation
ConversationReturn ==
  /\ last.op \in {"conversation", "error", "clear"}
  /\ last' = Nothing
  /\ UNCHANGED <<backend, isInitialized, memories, index, nextId>>
  /\ UNCHANGED <<filterVars, disk, calls, provision>>

RememberConversationUserStep ==
  \E userText \in Contents, conversationId \in ConversationIds,
     metadata \in ConversationMetaPool, outcome \in CallOutcomes :
    nextId < MaxUuids
      /\ RememberConversationUser(userText, ReplyText, conversationId, metadata, outcome)

RememberConversationAssistantStep ==
  \E outcome \in CallOutcomes : RememberConversationAssistant(outcome)

NextConversation ==
  \/ RememberConversationUserStep
  \/ RememberConversationAssistantStep
  \/ SimpleClear
  \/ ConversationReturn

SpecConversation == InitStore /\ [][NextConversation]_vars

(* ------------------------------------------------------------------ *)
(* Overlapping Supermemory.remember calls on one instance              *)
(* ------------------------------------------------------------------ *)

\* what the storage directory holds when the process starts: nothing, or the
\* file an earlier process saved
PersistedFiles ==
  {NoFile, [exists |-> TRUE, data |-> <<NewMemory(-1, "t2", EmptyMeta)>>]}

\* remember up to its first await: with isInitialized false it enters
\* initialize and awaits embeddingService.initialize, otherwise it awaits embed
RememberBegin(p, content) ==
  /\ calls[p].pc = "idle"
  /\ backend = "simple"
  /\ nextId + Cardinality({q \in Callers : calls[q].pc \in {"initializing", "embedding"}})
       < MaxUuids
  /\ calls' = [calls EXCEPT ![p] = [pc |-> IF isInitialized THEN "embedding" ELSE "initializing",
                                    content |-> content, id |-> 0]]
  /\ UNCHANGED <<backend, isInitialized, memories, index, nextId, last, disk>>
  /\ UNCHANGED <<filterVars, provision>>

\* the embedding model of this call's initialize is loaded: vectorStore.initialize
\* runs loadFromDisk, isInitialized is set, and remember goes on to await embed
RememberInitialized(p) ==
  /\ calls[p].pc = "initializing"
  /\ memories' = LoadedFromDisk(memories, disk)
  /\ isInitialized' = TRUE
  /\ calls' = [calls EXCEPT ![p].pc = "embedding"]
  /\ UNCHANGED <<backend, index, nextId, last, disk>>
  /\ UNCHANGED <<filterVars, provision>>

\* embed has settled: the Memory is built with a fresh uuid, vectorStore.add
\* pushes it, and remember returns the id
RememberAdded(p) ==
  /\ calls[p].pc = "embedding"
  /\ nextId' = nextId + 1
  /\ memories' = Append(memories, NewMemory(nextId + 1, calls[p].content, EmptyMeta))
  /\ calls' = [calls EXCEPT ![p].pc = "returned", ![p].id = nextId + 1]
  /\ UNCHANGED <<backend, isInitialized, index, last, disk>>
  /\ UNCHANGED <<filterVars, provision>>

\* the caller has taken the id and may call again
RememberReturned(p) ==
  /\ calls[p].pc = "returned"
  /\ calls' = [calls EXCEPT ![p] = IdleCall]
  /\ UNCHANGED <<backend, isInitialized, memories, index, nextId, last, disk>>
  /\ UNCHANGED <<filterVars, provision>>

\* a Supermemory over a storage directory, just constructed
InitConcurrent ==
  /\ backend = "simple"
  /\ isInitialized = FALSE
  /\ memories = <<>>
  /\ index = <<>>
  /\ nextId = 0
  /\ last = Nothing
  /\ userMessage = <<>>
  /\ aiResponse = <<>>
  /\ llmResponse = Nothing
  /\ fpc = "idle"
  /\ decision = Nothing
  /\ chat = Nothing
  /\ disk \in PersistedFiles
  /\ calls = NoCalls
  /\ provision = NotProvisioned

RememberBeginStep == \E p \in Callers, content \in Contents : RememberBegin(p, content)
RememberInitializedStep == \E p \in Callers : RememberInitialized(p)
RememberAddedStep == \E p \in Callers : RememberAdded(p)
RememberReturnedStep == \E p \in Callers : RememberReturned(p)

NextConcurrent ==
  \/ RememberBeginStep
  \/ RememberInitializedStep
  \/ RememberAddedStep
  \/ RememberReturnedStep

SpecConcurrent == InitConcurrent /\ [][NextConcurrent]_vars

(* ------------------------------------------------------------------ *)
(* ensureInit and PineconeRAG.initialize with waitForIndexReady        *)
(* ------------------------------------------------------------------ *)

\* maxAttempts of waitForIndexReady
maxAttempts == 30

\* ensureInit calls started in one checked behaviour
MaxBegins == 3

\* a request handler that has not called ensureInit
IdleInit == [pc |-> "idle", attempts |-> 0]

\* positions of a call inside PineconeRAG.initialize
InsideInitialize == {"loadingModel", "listing", "creating", "polling"}

\* ensureInit up to its first await: return when initialized, else construct
\* the PineconeRAG and enter initialize, which awaits embeddingService.initialize
EnsureInitBegin(p) ==
  /\ calls[p].pc = "idle"
  /\ provision.begun < MaxBegins
  /\ provision' = [provision EXCEPT !.begun = @ + 1]
  /\ calls' = [calls EXCEPT ![p] = [pc |-> IF isInitialized THEN "returned" ELSE "loadingModel",
                                    attempts |-> 0]]
  /\ UNCHANGED <<backend, isInitialized, memories, index, nextId, last, disk>>
  /\ UNCHANGED filterVars

\* the embedding service of this PineconeRAG is initialized; listIndexes is called
InitializeModelLoaded(p) ==
  /\ calls[p].pc = "loadingModel"
  /\ provision' = [provision EXCEPT !.loads = @ + 1]
  /\ calls' = [calls EXCEPT ![p].pc = "listing"]
  /\ UNCHANGED <<backend, isInitialized, memories, index, nextId, last, disk>>
  /\ UNCHANGED filterVars

\* listIndexes answers: an index of that name exists (this.index is set,
\* initialize returns, ensureInit sets initialized), or createIndex is called
InitializeListed(p) ==
  /\ calls[p].pc = "listing"
  /\ provision' = [provision EXCEPT !.lists = @ + 1]
  /\ IF provision.state # "absent"
     THEN /\ isInitialized' = TRUE
          /\ calls' = [calls EXCEPT ![p].pc = "returned"]
     ELSE /\ calls' = [calls EXCEPT ![p].pc = "creating"]
          /\ UNCHANGED isInitialized
  /\ UNCHANGED <<backend, memories, index, nextId, last, disk>>
  /\ UNCHANGED filterVars

\* createIndex answers: the index is being provisioned and the poll starts, or
\* the name is taken and initialize rethrows the conflict
InitializeCreated(p) ==
  /\ calls[p].pc = "creating"
  /\ IF provision.state = "absent"
     THEN /\ provision' = [provision EXCEPT !.creates = @ + 1, !.state = "provisioning"]
          /\ calls' = [calls EXCEPT ![p].pc = "polling"]
     ELSE /\ provision' = [provision EXCEPT !.creates = @ + 1]
          /\ calls' = [calls EXCEPT ![p].pc = "failed"]
  /\ UNCHANGED <<backend, isInitialized, memories, index, nextId, last, disk>>
  /\ UNCHANGED filterVars

\* one iteration of the loop of waitForIndexReady: describeIndex answers or
\* raises; after the loop initialize returns (ready) or throws
WaitForIndexReadyPoll(p, describe) ==
  /\ calls[p].pc = "polling"
  /\ LET ready == describe = "ok" /\ provision.state = "ready"
         attempts == IF ready THEN calls[p].attempts ELSE calls[p].attempts + 1
     IN IF ready
        THEN /\ isInitialized' = TRUE
             /\ calls' = [calls EXCEPT ![p].pc = "returned"]
        ELSE /\ calls' = [calls EXCEPT ![p].attempts = attempts,
                                       ![p].pc = IF attempts < maxAttempts THEN "polling"
                                                 ELSE "failed"]
             /\ UNCHANGED isInitialized
  /\ UNCHANGED <<backend, memories, index, nextId, last, disk, provision>>
  /\ UNCHANGED filterVars

\* Pinecone finishes provisioning the index
ProvisioningDone ==
  /\ provision.state = "provisioning"
  /\ provision' = [provision EXCEPT !.state = "ready"]
  /\ UNCHANGED <<backend, isInitialized, memories, index, nextId, last, disk, calls>>
  /\ UNCHANGED filterVars

\* the handler that called ensureInit answers (200, or 500 from its catch block)
EnsureInitEnd(p) ==
  /\ calls[p].pc \in {"returned", "failed"}
  /\ calls' = [calls EXCEPT ![p] = IdleInit]
  /\ UNCHANGED <<backend, isInitialized, memories, index, nextId, last, disk, provision>>
  /\ UNCHANGED filterVars

\* the function process has started: nothing is initialized, no index exists
InitEnsure ==
  /\ backend = "pinecone"
  /\ isInitialized = FALSE
  /\ memories = <<>>
  /\ index = <<>>
  /\ nextId = 0
  /\ last = Nothing
  /\ userMessage = <<>>
  /\ aiResponse = <<>>
  /\ llmResponse = Nothing
  /\ fpc = "idle"
  /\ decision = Nothing
  /\ chat = Nothing
  /\ disk = NoFile
  /\ calls = [p \in Callers |-> IdleInit]
  /\ provision = NotProvisioned

EnsureInitBeginStep == \E p \in Callers : EnsureInitBegin(p)
InitializeModelLoadedStep == \E p \in Callers : InitializeModelLoaded(p)
InitializeListedStep == \E p \in Callers : InitializeListed(p)
InitializeCreatedStep == \E p \in Callers : InitializeCreated(p)
WaitForIndexReadyPollStep ==
  \E p \in Callers, describe \in {"ok", "fails"} : WaitForIndexReadyPoll(p, describe)
EnsureInitEndStep == \E p \in Callers : EnsureInitEnd(p)

NextEnsure ==
  \/ EnsureInitBeginStep
  \/ InitializeModelLoadedStep
  \/ InitializeListedStep
  \/ InitializeCreatedStep
  \/ WaitForIndexReadyPollStep
  \/ ProvisioningDone
  \/ EnsureInitEndStep

SpecEnsure == InitEnsure /\ [][NextEnsure]_vars

\* the same process when its requests do not overlap: one ensureInit at a time
NextProvision ==
  \/ EnsureInitBegin(1)
  \/ InitializeModelLoaded(1)
  \/ InitializeListed(1)
  \/ InitializeCreated(1)
  \/ \E describe \in {"ok", "fails"} : WaitForIndexReadyPoll(1, describe)
  \/ ProvisioningDone
  \/ EnsureInitEnd(1)

SpecProvision == InitEnsure /\ [][NextProvision]_vars

(* ------------------------------------------------------------------ *)
(* Claims about the stores (checked under Spec)                        *)
(* ------------------------------------------------------------------ *)

Searched == last.op = "search"

ResultAt(i) == last.results[i]

\* the records the constructed store holds, as (owner, content) pairs
StoredOwners ==
  {memories[i].metadata.userId : i \in {j \in 1..Len(memories) : Has(memories[j].metadata, "userId")}}
    \cup {index[i].metadata.userId : i \in 1..Len(index)}

C3_Threshold ==
  (Searched /\ last.threshold # Undef) =>
    /\ \A i \in 1..Len(last.results) : ResultAt(i).similarity >= last.threshold
    /\ \A i \in 1..Len(last.candidates) :
         last.candidates[i].similarity >= last.threshold =>
           \E j \in 1..Len(last.results) : ResultAt(j) = last.candidates[i]

\* the metadata the store holds for a returned record
StoredMetadata(id) ==
  IF backend \in {"pinecone", "chroma"}
  THEN RecordOf(index, id).metadata
  ELSE memories[CHOOSE i \in 1..Len(memories) : memories[i].id = id].metadata

\* C4: every returned record agrees with the filter on every field the filter
\* names, on every backend (for tags, read leniently as the stores read it:
\* the record carries one of the named tags); no named field is ignored.
C4_ConjunctiveFilter ==
  Searched =>
    \A i \in 1..Len(last.results) :
      \A key \in DOMAIN last.filter :
        LET stored == StoredMetadata(ResultAt(i).memory.id)
        IN /\ Has(stored, key)
           /\ IF key = "tags"
              THEN \E a \in 1..Len(stored.tags), b \in 1..Len(last.filter.tags) :
                     stored.tags[a] = last.filter.tags[b]
              ELSE stored[key] = last.filter[key]


\* C5: when the caller omits the threshold, the search applies the low default
\* 0.3 on every backend that takes a threshold, so that every candidate scoring
\* at least 0.3 is returned.
C5_LowDefaultThreshold ==
  (Searched /\ last.threshold = Undef /\ backend \in {"simple", "pinecone", "chroma"}) =>
    \A i \in 1..Len(last.candidates) :
      last.candidates[i].similarity >= 30 =>
        \E j \in 1..Len(last.results) : ResultAt(j) = last.candidates[i]

\* what a retrieve for the given text returns from the hosted store as it is now
RetrieveNow(content) ==
  IF backend = "pinecone"
  THEN PineconeKeep(PineconeQuery(index, Embed(content), MaxMemories + 1, EmptyMeta),
                    PineconeDefaultThreshold)
  ELSE ChromaKeep(ChromaQuery(index, Embed(content), MaxMemories + 1, EmptyMeta),
                  ChromaDefaultThreshold)

\* C6: after update(id, newText, meta), on an id that existed or not, a query
\* returns a record under that id with the new text, on Pinecone and on Chroma.
C6_Upsert ==
  last.op = "update" =>
    \E i \in 1..Len(RetrieveNow(last.content)) :
      /\ RetrieveNow(last.content)[i].memory.id = last.id
      /\ RetrieveNow(last.content)[i].memory.content = last.content

MergedFields == {"userId", "conversationId", "messageType", "importance", "category"}

\* C7: after update(id, text, metadata) on an existing record, every metadata
\* field the call did not supply keeps the value it had before.
C7_UpdateMerges ==
  (last.op = "update" /\ last.existed) =>
    \A key \in MergedFields \ DOMAIN last.metadata :
      RecordOf(index, last.id).metadata[key] = last.before[key]

\* C19: every result of a search has a similarity within [0,1]
\* (0..100 hundredths), whatever the query and the stored vectors are.
C19_ScoreRange ==
  Searched =>
    \A i \in 1..Len(last.results) :
      ResultAt(i).similarity >= 0 /\ ResultAt(i).similarity <= 100

Listed == last.op = "list"

\* the ids of the records the index holds for an owner
OwnedIds(userId) ==
  {index[i].id : i \in {j \in 1..Len(index) : index[j].metadata.userId = userId}}

\* the places <<group, position>> of the listing
ListedPlaces ==
  {<<g, i>> \in ListCategories \X (1..ListTopK) : i <= Len(last.memories[g])}

\* how often an id occurs in the groups of the listing
ListedCount(id) ==
  Cardinality({p \in ListedPlaces : last.memories[p[1]][p[2]].id = id})

\* C17: the listing for owner X has every record stored under X exactly once
\* and no record of another owner, each in the group of the category it was
\* stored with, and the total is the sum of the group sizes.
C17_OwnerListing ==
  Listed =>
    /\ \A id \in IndexIds(index) :
         ListedCount(id) = IF id \in OwnedIds(last.userId) THEN 1 ELSE 0
    /\ \A g \in ListCategories : \A i \in 1..Len(last.memories[g]) :
         RecordOf(index, last.memories[g][i].id).metadata.category = g
    /\ last.total = Cardinality(ListedPlaces)

(* ------------------------------------------------------------------ *)
(* Claims about the policy (checked under SpecFilter)                  *)
(* ------------------------------------------------------------------ *)

Analyzed == fpc = "done"

\* the text-generation call failed, or what it returned does not parse as a decision
PrimaryPathFailed ==
  \/ llmResponse.kind = "throws"
  \/ /\ llmResponse.kind = "text"
     /\ \/ llmResponse.fence = "preamble"
        \/ llmResponse.body.json \in {"invalid", "null"}
        \/ /\ llmResponse.body.json = "object"
           /\ llmResponse.body.shouldStoreType # "boolean"

\* C8: analyzeConversation always returns, and whenever the text-generation
\* call failed or its response did not parse as a decision, what it returns
\* is heuristicAnalysis(userMessage, aiResponse).
C8_PolicyFallback ==
  Analyzed =>
    /\ decision.status = "returned"
    /\ PrimaryPathFailed => decision.value = heuristicAnalysis(userMessage, aiResponse)

\* C8 witness: the response was JSON whose shouldStore is not a boolean, and
\* the caller got the heuristic decision for a personal message.
C8_Witness ==
  /\ Analyzed
  /\ llmResponse.kind = "text"
  /\ llmResponse.body.json = "object"
  /\ llmResponse.body.shouldStoreType = "string"
  /\ decision.status = "returned"
  /\ decision.value.category = "personal"
  /\ decision.value.reasoning = "Contains personal information"

\* the fallback ran: the text-generation call threw
FellBack == Analyzed /\ llmResponse.kind = "throws"

GreetingTokens == {greetings[i] : i \in 1..Len(greetings)}

\* the decision of the greeting rule
IsGreetingDecision(d) ==
  /\ d.shouldStore = FALSE
  /\ d.category = "casual"
  /\ d.importance = 10

\* C9 as stated: the fallback gives the greeting decision exactly for the
\* messages that are one of the greeting tokens.
C9_GreetingExact ==
  FellBack => (IsGreetingDecision(decision.value) <=> userMessage \in GreetingTokens)

\* C9 amended: the fallback gives the greeting decision exactly for the messages
\* that, lower-cased, are a greeting token or a greeting token followed by "!".
C9_GreetingRule ==
  FellBack =>
    (IsGreetingDecision(decision.value) <=>
       \E g \in GreetingTokens : ToLower(userMessage) \in {g, g \o <<"!">>})

\* C9 witness: the message "Hi!" got the greeting decision.
C9_Witness ==
  /\ FellBack
  /\ userMessage = <<"H", "i", "!">>
  /\ IsGreetingDecision(decision.value)

\* the ordered decision list of the claim: the condition and the outcome of each rule
DecisionList(message) ==
  LET lower == ToLower(message)
  IN << [applies |-> SomeIncluded(personalKeywords, lower),
         shouldStore |-> TRUE, category |-> "personal", importance |-> 90],
        [applies |-> SomeIncluded(preferenceKeywords, lower),
         shouldStore |-> TRUE, category |-> "preference", importance |-> 80],
        [applies |-> SomeIncluded(projectKeywords, lower),
         shouldStore |-> TRUE, category |-> "project", importance |-> 90],
        [applies |-> Includes(lower, <<"?">>) /\ SplitLength(message) > 3,
         shouldStore |-> TRUE, category |-> "question", importance |-> 70],
        [applies |-> SplitLength(message) > 5,
         shouldStore |-> TRUE, category |-> "important", importance |-> 60],
        [applies |-> TRUE,
         shouldStore |-> FALSE, category |-> "casual", importance |-> 20] >>

FirstApplying(list) ==
  list[CHOOSE i \in 1..Len(list) : list[i].applies /\ \A j \in 1..(i - 1) : ~list[j].applies]

NonGreeting(message) ==
  \A g \in GreetingTokens : ToLower(message) \notin {g, g \o <<"!">>}

\* C10: for a non-greeting message the fallback decision is that of the first
\* rule of the ordered list that applies (identity, preference, project,
\* question with more than 3 words, more than 5 words, else skip); words are
\* counted as the code counts them, the pieces between single spaces.
C10_DecisionList ==
  (FellBack /\ NonGreeting(userMessage)) =>
    LET rule == FirstApplying(DecisionList(userMessage))
    IN /\ decision.value.shouldStore = rule.shouldStore
       /\ decision.value.category = rule.category
       /\ decision.value.importance = rule.importance

\* C10 witness: a message with a preference phrase and a project phrase was
\* classified as preference, the earlier rule.
C10_Witness ==
  /\ FellBack
  /\ Includes(ToLower(userMessage), <<"i", " ", "l", "i", "k", "e">>)
  /\ Includes(ToLower(userMessage), <<"p", "r", "o", "j", "e", "c", "t">>)
  /\ decision.value.category = "preference"

\* C11: every decision analyzeConversation returns, from the parsed response
\* or from the heuristic, has an importance within [0,1] (0..100 hundredths).
C11_ImportanceRange ==
  Analyzed => (decision.value.importance >= 0 /\ decision.value.importance <= 100)

(* ------------------------------------------------------------------ *)
(* Claims about chat requests (checked under SpecChat)                 *)
(* ------------------------------------------------------------------ *)

PromptComposed == chat.pc \notin {"idle", "retrieve"} /\ chat.prompt # <<>>

PromptHas(part) == \E i \in 1..Len(chat.prompt) : chat.prompt[i] = part

\* C12: the prompt composed for a query always contains the memories section;
\* when the search returned nothing the section says that no relevant memories
\* were found; and the prompt ends with the current query.
C12_MemorySection ==
  PromptComposed =>
    /\ PromptHas("=== RELEVANT MEMORIES ===")
    /\ chat.memoriesUsed = 0 => PromptHas("No relevant memories found.")
    /\ Len(chat.prompt) >= 2
    /\ SubSeq(chat.prompt, Len(chat.prompt) - 1, Len(chat.prompt))
         = <<"Current Query: ", chat.message>>

ChatDone == chat.pc = "done"

\* C13: a request whose retrieval failed still calls text generation, and when
\* generation succeeds the caller gets the reply in a response that flags the
\* degraded retrieval.
C13_DegradedRetrieval ==
  (ChatDone /\ chat.retrieval = "failed") =>
    /\ chat.generation # "none"
    /\ chat.memoriesUsed = 0
    /\ chat.generation = "ok" =>
         (chat.status = "ok" /\ chat.delivered /\ Has(chat.response, "retrievalDegraded"))

\* C14: when the text-generation call for the reply fails, the request ends
\* with an error, no reply text is returned, the policy is not run and the
\* request writes nothing to the store.
C14_GenerationFailure ==
  chat.generation = "failed" =>
    /\ ChatDone
    /\ chat.status = "error"
    /\ ~chat.delivered
    /\ chat.reply = ""
    /\ ~Has(chat.response, "response")
    /\ ~chat.policyRun
    /\ chat.written = <<>>

\* C14 witness: on the web path, after a retrieval that succeeded, generation
\* failed and the caller got a 500.
C14_Witness ==
  /\ chat.path = "web"
  /\ chat.retrieval = "ok"
  /\ chat.generation = "failed"
  /\ chat.response = [code |-> 500, error |-> "generation"]

\* C15: when an insert of an HTTP chat request fails after the reply was
\* generated, the caller still receives the reply as a successful response.
C15_BestEffortStorage ==
  (ChatDone /\ chat.path \in {"web", "netlify"} /\ chat.storage = "failed") =>
    /\ chat.status = "ok"
    /\ chat.delivered

\* C16: a request writes to the store only after the policy ran; with
\* shouldStore = false it writes nothing; with shouldStore = true and both
\* inserts done it has written exactly two records, both with the decision's
\* importance and category and the request's owner.
C16_StorageGate ==
  ChatDone =>
    /\ chat.written # <<>> => chat.policyRun
    /\ (chat.policyRun /\ ~chat.decision.shouldStore) => chat.written = <<>>
    /\ (chat.policyRun /\ chat.decision.shouldStore /\ chat.status = "ok"
          /\ chat.storage = "ok") =>
         /\ Len(chat.written) = 2
         /\ \A i \in 1..Len(chat.written) :
              LET stored == StoredMetadata(chat.written[i])
              IN /\ Has(stored, "importance") /\ stored.importance = chat.decision.importance
                 /\ Has(stored, "category") /\ stored.category = chat.decision.category
                 /\ Has(stored, "userId") /\ stored.userId = chat.userId

(* ------------------------------------------------------------------ *)
(* Claims about batch inserts (checked under SpecBatch)                *)
(* ------------------------------------------------------------------ *)

BatchDone == last.op = "batchDone"

\* the stored record of an id, on whichever store the backend uses
StoredRecord(id) ==
  IF backend = "simple"
  THEN memories[CHOOSE i \in 1..Len(memories) : memories[i].id = id]
  ELSE [content |-> RecordOf(index, id).metadata.content]

StoredIds == IF backend = "simple" THEN {memories[i].id : i \in 1..Len(memories)}
             ELSE IndexIds(index)

RECURSIVE Flatten(_)
Flatten(seqs) == IF seqs = <<>> THEN <<>> ELSE Head(seqs) \o Flatten(Tail(seqs))

\* C18: a batch insert of n items returns n ids, the i-th id is stored with the
\* i-th item's content, the Pinecone index is written in calls of at most 100
\* vectors that follow the input order, and every returned id is in the store.
C18_BatchInsert ==
  BatchDone =>
    /\ Len(last.ids) = Len(last.items)
    /\ \A i \in 1..Len(last.ids) :
         /\ last.ids[i] \in StoredIds
         /\ StoredRecord(last.ids[i]).content = last.items[i].content
    /\ \A i, j \in 1..Len(last.ids) : i # j => last.ids[i] # last.ids[j]
    /\ backend = "pinecone" =>
         /\ \A c \in 1..Len(last.calls) : Len(last.calls[c]) <= 100
         /\ Flatten(last.calls) = last.ids

\* C18 witness: a Pinecone batch of more than 200 items was written in three calls.
C18_Witness ==
  /\ BatchDone
  /\ backend = "pinecone"
  /\ Len(last.items) > 200
  /\ Len(last.calls) = 3
  /\ Len(index) = Len(last.items)

(* ------------------------------------------------------------------ *)
(* Claims about the in-process store (checked under SpecStore)         *)
(* ------------------------------------------------------------------ *)

\* C20: in every reachable state of a store, after any sequence of add,
\* addBatch, remember, rememberBatch, clear, saveToDisk and loadFromDisk, no
\* two records have the same id.
C20_IdUniqueness ==
  \A i, j \in 1..Len(memories) : i # j => memories[i].id # memories[j].id

(* ------------------------------------------------------------------ *)
(* Claims about the vector dimension (checked under SpecDim)           *)
(* ------------------------------------------------------------------ *)

\* C21: in every reachable state every record of the store has a vector of
\* the store's configured dimension (an insert with a vector of another
\* length is rejected, never stored).
C21_DimensionInvariant ==
  \A i \in 1..Len(memories) : Len(memories[i].embedding) = Dimension

(* ------------------------------------------------------------------ *)
(* Claims about the filtered search (checked under SpecFaiss)          *)
(* ------------------------------------------------------------------ *)

\* stored records that pass the filter of the search just made
MatchingIds ==
  {memories[i].id : i \in {j \in 1..Len(memories) : matchesFilter(memories[j].metadata, last.filter)}}

ReturnedIds == {last.results[i].memory.id : i \in 1..Len(last.results)}

\* C22: a filtered search returns min(topK, m) results, m being the number of
\* stored records that match the filter; when m <= topK the result holds all
\* m matching records, wherever they rank among the others.
C22_AllMatches ==
  Searched =>
    LET topK == IF last.topK = Undef THEN DefaultTopK ELSE last.topK
        m == Cardinality(MatchingIds)
    IN /\ Len(last.results) = (IF topK < m THEN topK ELSE m)
       /\ m <= topK => ReturnedIds = MatchingIds

(* ------------------------------------------------------------------ *)
(* Claims about failing backend calls (checked under SpecRetry)        *)
(* ------------------------------------------------------------------ *)

\* a store operation ended with the error of a transient backend failure
TransientFailure ==
  /\ last.op = "error"
  /\ Has(last, "thrown")
  /\ last.thrown.message \in {"timeout", "rateLimit"}

\* C23: a store operation that hits a transient backend error is retried: when
\* it ends with that error it has made more than one attempt, and the error
\* the caller gets names the operation and the backend.
C23_BoundedRetry ==
  TransientFailure =>
    /\ last.attempts > 1
    /\ Has(last.thrown, "operation")
    /\ Has(last.thrown, "backend")

(* ------------------------------------------------------------------ *)
(* Claims about persistence (checked under SpecPersist)                *)
(* ------------------------------------------------------------------ *)

\* C24: a failure while loading the persisted records is reported to the
\* caller of initialize: an initialize that returned normally over an existing
\* file leaves the store holding the records of that file, not an empty store
\* that a later saveToDisk writes over the file.
C24_LoadFailureReported ==
  (last.op = "initialize" /\ last.result = "resolved" /\ last.load # "skipped" /\ disk.exists)
    => memories = disk.data

(* ------------------------------------------------------------------ *)
(* Claims about the phases of a request (checked under SpecChat)       *)
(* ------------------------------------------------------------------ *)

\* C25: a request passes through retrieval, generation, the storage decision
\* and the end in this order: generation starts only after retrieval has
\* finished and has not run before, the policy runs only after the reply was
\* generated and has not run before, and a store write is attempted or done
\* only after the policy returned.
C25_PhaseOrder ==
  /\ chat.pc = "generate" => (chat.retrieval # "none" /\ chat.generation = "none")
  /\ chat.pc = "analyze" => (chat.generation = "ok" /\ ~chat.policyRun)
  /\ chat.policyRun => chat.generation = "ok"
  /\ chat.pc \in {"storeUser", "storeAssistant"} => chat.policyRun
  /\ chat.written # <<>> => chat.policyRun

(* ------------------------------------------------------------------ *)
(* Claims about rememberConversation (checked under SpecConversation)  *)
(* ------------------------------------------------------------------ *)

\* position in the store of the record with this id (0 when there is none)
PositionOf(id) ==
  IF \E i \in 1..Len(memories) : memories[i].id = id
  THEN CHOOSE i \in 1..Len(memories) : memories[i].id = id
  ELSE 0

\* C26: while the insert of the assistant turn has not been attempted, the
\* user-turn record is already stored and is the newest record; when
\* rememberConversation has returned, its two records have distinct ids, the
\* user turn is stored before the assistant turn, both carry the same
\* conversationId, and they are tagged user and assistant, whatever extra
\* metadata the caller passed.
C26_RecordExchange ==
  /\ last.op = "conversationPending" =>
       /\ PositionOf(last.userMemoryId) = Len(memories)
       /\ Len(memories) > 0
       /\ memories[Len(memories)].metadata.messageType = "user"
  /\ last.op = "conversation" =>
       LET u == PositionOf(last.userMemoryId)
           a == PositionOf(last.assistantMemoryId)
       IN /\ last.userMemoryId # last.assistantMemoryId
          /\ u > 0 /\ a > 0 /\ u < a
          /\ memories[u].metadata.conversationId = memories[a].metadata.conversationId
          /\ memories[u].metadata.messageType = "user"
          /\ memories[a].metadata.messageType = "assistant"

\* a conversation whose caller passed its own messageType and conversationId
\* has been stored
C26_Witness ==
  /\ last.op = "conversation"
  /\ Has(last.metadata, "messageType")
  /\ Has(last.metadata, "conversationId")
  /\ Len(memories) = 2

(* ------------------------------------------------------------------ *)
(* Claims about overlapping inserts (checked under SpecConcurrent)     *)
(* ------------------------------------------------------------------ *)

\* number of records of the store with this id
CopiesOf(id) == Cardinality({i \in 1..Len(memories) : memories[i].id = id})

\* C27: for every interleaving of overlapping remember calls, every call that
\* returned an id has its record in the store exactly once, and the store
\* holds the loaded records plus one record per completed insert.
C27_ConcurrentInserts ==
  /\ \A p \in Callers : calls[p].pc = "returned" => CopiesOf(calls[p].id) = 1
  /\ Len(memories) = (IF isInitialized THEN Len(disk.data) ELSE 0) + nextId

(* ------------------------------------------------------------------ *)
(* Claims about initialization (checked under SpecEnsure and          *)
(* SpecProvision)                                                      *)
(* ------------------------------------------------------------------ *)

\* C28: for every interleaving of first requests the backend initialization
\* is carried out at most once: no two calls are inside
\* PineconeRAG.initialize together, and once initialization has completed no
\* further model load, listIndexes or createIndex is made.
C28_InitializeOnce ==
  /\ Cardinality({p \in Callers : calls[p].pc \in InsideInitialize}) <= 1
  /\ isInitialized => \A p \in Callers : calls[p].pc \notin InsideInitialize

\* C29: the readiness poll makes at most maxAttempts unsuccessful attempts,
\* a call that used them up has failed, and initialization has succeeded
\* only with the index ready.
C29_BoundedProvisioning ==
  /\ \A p \in Callers :
       /\ calls[p].attempts <= maxAttempts
       /\ calls[p].attempts = maxAttempts => calls[p].pc = "failed"
  /\ isInitialized => provision.state = "ready"

(* ------------------------------------------------------------------ *)
(* Claims about the policy's backend calls (checked under SpecFilter)  *)
(* ------------------------------------------------------------------ *)

\* the text-generation call returned a text that does not parse as a decision
Unparseable == llmResponse.kind = "text" /\ PrimaryPathFailed

\* C30: analyzeConversation calls the text-generation backend at most twice,
\* and when the response was not parseable as a decision it has called it
\* exactly once more before it returned the heuristic decision.
C30_PolicyRetry ==
  /\ generateResponseCalls <= 2
  /\ (Analyzed /\ Unparseable) => generateResponseCalls = 2

====
